---------------------------- MODULE Spec2Model ----------------------------
(***************************************************************************)
(* A model of the database-abstraction layer of etl_manager:               *)
(*   - SSHTunnelManager.create_ssh_tunnel       (database/ssh_tunnel.py)   *)
(*   - the retry wrapper applied to client and CRUD entry points           *)
(*   - the generic CRUD engines of the four relational backends            *)
(*   - the pooled clients (PostgreSQL, Oracle, MySQL)                      *)
(*   - SQLServerClient's single connection under concurrent callers        *)
(*   - the entry points of the six clients, seen from the connection       *)
(*   - construction, connect() and disconnect() of the six clients         *)
(*   - PostgresqlGenericCRUD.create followed by read                       *)
(*   - create_table_if_not_exists called repeatedly                        *)
(*   - failed_query_queue and SQLServerClient.process_failed_queries       *)
(*   - DatabaseFactory.get_database                                        *)
(*   - the timeout argument of execute_query                               *)
(*   - execute_raw_query and _infer_column_types of the CRUD engines       *)
(*   - PostgreSQLClient's per-thread connection handles and its pool       *)
(*   - OracleGenericCRUD.update                                            *)
(*   - process_failed_queries and create_table_if_not_exists under         *)
(*     concurrent callers                                                  *)
(*   - ETLScheduler                                   (app/scheduler.py)   *)
(* Each subsystem has its own specification over the shared variables; the *)
(* variables of the other subsystems rest at their idle values.            *)
(***************************************************************************)
EXTENDS Integers, Sequences, FiniteSets, TLC

RECURSIVE Pow(_, _)
Pow(b, e) == IF e <= 0 THEN 1 ELSE b * Pow(b, e - 1)

RECURSIVE SumSeq(_)
SumSeq(s) == IF s = <<>> THEN 0 ELSE Head(s) + SumSeq(Tail(s))

Range(s) == {s[i] : i \in DOMAIN s}

(***************************************************************************)
(* Bounds of the model.                                                    *)
(***************************************************************************)
\* largest max_retries argument a caller passes to create_ssh_tunnel
MaxTunnelRetries == 3
\* largest initial_backoff argument a caller passes to create_ssh_tunnel
MaxInitialBackoff == 2
\* most rows in the values argument of create
MaxRows == 2
\* last statement position of a body at which the backend's fault can be met
MaxFailAt == 3
\* caller threads of a pooled client that are followed one by one
NumThreads == 2
\* largest max_pool_size a PostgreSQL configuration carries
MaxPoolSize == 2

VARIABLES
  \* ---- SSHTunnelManager --------------------------------------------------
  tun_pc,           \* "idle" | "loop" | "done": position in create_ssh_tunnel
  max_retries,      \* argument of the running call
  initial_backoff,  \* argument of the running call
  retries,          \* local variable `retries`
  ssh_tunnel,       \* self.ssh_tunnel: NoTunnel or the last forwarder constructed
  attempt,          \* number of loop iterations of the running call
  bound_port,       \* attempt |-> local port its forwarder bound (0: it failed)
  tun_slept,        \* arguments of time.sleep, in call order
  tun_result,       \* [kind |-> "none" | "returned" | "raised", value, error]
  \* ---- one call of a (retry-wrapped) CRUD or client entry point -----------
  pc,               \* "idle" | "running" | "done"
  call,             \* the arguments of the call and the faults the backend has in store
  invocations,      \* how many times the wrapped body has run in this call
  raised,           \* the exception each failed run of the body raised, in order
  slept,            \* the wrapper's sleeps, each a fraction <<numerator, denominator>>
  outcome,          \* what the caller received: [kind, value, exc, attempt]
  sent,             \* statements handed to the client (CRUD layer) in order
  executed,         \* cursor.execute calls made for the statement (client layer)
  failed_query_queue, \* entries put on the module-level queue during the call
  catalog,          \* the backend's tables: table name |-> column names
  \* ---- one pooled client and its concurrent callers ------------------------
  pool_backend,     \* "none" before connect(), else the client's backend
  pool_config,      \* the configuration the client was constructed with
  pool_max,         \* the capacity the pool was built with
  conn,             \* thread |-> "idle" | "using" | "cached" | "waiting"
  got,              \* thread |-> what its last request for a connection met
  others_out,       \* connections checked out by the client's other callers
  leaked,           \* connections checked out and never given back
  \* ---- one SQLServerClient and its concurrent callers ----------------------
  sq_pc,            \* thread |-> "idle" | "executed" | "failed": position in its call
  sq_op,            \* thread |-> the entry point of its last call
  sq_stmt,          \* thread |-> its last write on self.connection: [state, by]
  \* ---- one client entry point, seen from the connection it uses ------------
  co_pc,            \* "idle" | "running" | "done"
  co_call,          \* the client, the entry point, its statements and the fault met
  co_log,           \* what the call did with the connection, in order
  co_result,        \* what the caller received: [kind, exc]
  \* ---- the life of one client object: construction, connect, disconnect ----
  lc_client,        \* "none" before construction, else the client's class
  lc_config,        \* self.config, the dictionary the client was constructed with
  lc_handle,        \* self.connection / self.pool / self.connection_pool: 0 is None
  lc_objects,       \* backend object (pool or connection) id |-> "open" | "closed"
  lc_manager,       \* self.ssh_tunnel_manager: [set, tunnel, port]
  lc_ops,           \* the calls made on the client so far: [op, ssh, result]
  lc_trace,         \* the driver and tunnel calls those made: [op, call, obj, was, host, port]
  \* ---- create followed by read on a PostgreSQL table that did not exist -----
  rt_pc,            \* "idle" | "created" | "read"
  rt_call,          \* the arguments of create
  rt_created,       \* what create handed back
  rt_catalog,       \* the backend's tables after create
  rt_stored,        \* the rows of the table after create, column name |-> value
  rt_read,          \* what read handed back
  rt_records,       \* the records read returned
  rt_sent,          \* the statements create sent to the client
  \* ---- repeated create_table_if_not_exists on one table ---------------------
  ct_call,          \* the arguments: backend, table, columns, values
  ct_catalog,       \* the backend's tables
  ct_results      , \* per call made so far: [outcome, sent, catalog]
  \* ---- failed_query_queue and its replay pass -------------------------------
  fq_pc,            \* "idle", or "replaying" inside process_failed_queries
  fq_queue,         \* per client module, the entries on failed_query_queue
  fq_logged,        \* statements logged so far; the next entry's query
  fq_replayed,      \* whether a replay pass was ever entered
  fq_runs,          \* per logged query, how often the replay executed it again
  fq_last         , \* the entry the replay handled last, and what it did
  \* ---- DatabaseFactory.get_database -----------------------------------------
  gd_call         , \* the identifier passed and what the call produced
  \* ---- per-call timeouts ----------------------------------------------------
  tm_pg,            \* statement_timeout of the thread's PostgreSQL session
  tm_oracle,        \* call_timeout of each pooled Oracle connection
  tm_last         , \* the last execute_query: its argument and the timeout it ran under
  \* ---- execute_raw_query ----------------------------------------------------
  rq_call,          \* the arguments of the call and the rows the backend holds
  rq_result,        \* what the call returned or raised
  rq_done         , \* whether the call has ended
  \* ---- _infer_column_types --------------------------------------------------
  it_call,          \* the arguments: backend, columns, sample rows, primary key
  it_types        , \* per column, the SQL type inferred
  \* ---- PostgreSQLClient's thread-local connections --------------------------
  tl_open,          \* whether self.connection_pool is a pool
  tl_max,           \* its maxconn
  tl_used,          \* the connections the pool counts as handed out
  tl_local,         \* per thread, self._local.connection (0: None)
  tl_stale,         \* threads whose handle is a connection of a disposed pool
  tl_pending,       \* connections with uncommitted work
  tl_ran,           \* threads that ran an operation since their last error
  tl_last         , \* the last call: thread, entry point, result, connection used
  up_last         , \* the last OracleGenericCRUD.update: SET clause, bound values, result
  dq_pc,            \* per thread: "idle", or its position in process_failed_queries
  dq_queue,         \* failed_query_queue
  dq_entry,         \* per thread, the entry its get() returned
  dq_logged       , \* entries logged so far
  cr_pc,            \* per thread: "idle", or its position in create_table_if_not_exists
  cr_call,          \* per thread, the backend and table of its call
  cr_issued,        \* per thread, whether its call sent a CREATE TABLE
  cr_catalog      , \* per backend, the tables it holds
  sc_config,        \* self.config['jobs']: per job name, its entry
  sc_is_running,    \* self.is_running
  sc_jobs,          \* the jobs registered with the schedule module
  sc_started        \* the job started last, and its entry's state at that time

tunnelVars == <<tun_pc, max_retries, initial_backoff, retries, ssh_tunnel,
                attempt, bound_port, tun_slept, tun_result>>

callVars == <<pc, call, invocations, raised, slept, outcome, sent, executed,
              failed_query_queue, catalog>>

poolVars == <<pool_backend, pool_config, pool_max, conn, got, others_out, leaked>>

sharedVars == <<sq_pc, sq_op, sq_stmt>>

connVars == <<co_pc, co_call, co_log, co_result>>

lifeVars == <<lc_client, lc_config, lc_handle, lc_objects, lc_manager, lc_ops, lc_trace>>

tripVars == <<rt_pc, rt_call, rt_created, rt_catalog, rt_stored, rt_read, rt_records,
             rt_sent>>

schemaVars == <<ct_call, ct_catalog, ct_results>>

replayVars == <<fq_pc, fq_queue, fq_logged, fq_replayed, fq_runs, fq_last>>

factoryVars == <<gd_call>>

timeoutVars == <<tm_pg, tm_oracle, tm_last>>

rawVars == <<rq_call, rq_result, rq_done>>

inferVars == <<it_call, it_types>>

localVars == <<tl_open, tl_max, tl_used, tl_local, tl_stale, tl_pending, tl_ran, tl_last>>

updateVars == <<up_last>>

drainVars == <<dq_pc, dq_queue, dq_entry, dq_logged>>

raceVars == <<cr_pc, cr_call, cr_issued, cr_catalog>>

schedVars == <<sc_config, sc_is_running, sc_jobs, sc_started>>

vars == <<tunnelVars, callVars, poolVars, sharedVars, connVars, lifeVars, tripVars,
          schemaVars,
          replayVars,
          factoryVars,
          timeoutVars,
          rawVars,
          inferVars,
          localVars,
          updateVars,
          drainVars,
          raceVars,
          schedVars>>

\* what the steps of one subsystem leave alone
exceptTunnel == <<callVars, poolVars, sharedVars, connVars, lifeVars, tripVars,
  schemaVars,
  replayVars,
  factoryVars,
  timeoutVars,
  rawVars,
  inferVars,
  localVars,
  updateVars,
  drainVars,
  raceVars,
  schedVars>>
exceptCall == <<tunnelVars, poolVars, sharedVars, connVars, lifeVars, tripVars,
  schemaVars,
  replayVars,
  factoryVars,
  timeoutVars,
  rawVars,
  inferVars,
  localVars,
  updateVars,
  drainVars,
  raceVars,
  schedVars>>
exceptPool == <<tunnelVars, callVars, sharedVars, connVars, lifeVars, tripVars,
  schemaVars,
  replayVars,
  factoryVars,
  timeoutVars,
  rawVars,
  inferVars,
  localVars,
  updateVars,
  drainVars,
  raceVars,
  schedVars>>
exceptShared == <<tunnelVars, callVars, poolVars, connVars, lifeVars, tripVars,
  schemaVars,
  replayVars,
  factoryVars,
  timeoutVars,
  rawVars,
  inferVars,
  localVars,
  updateVars,
  drainVars,
  raceVars,
  schedVars>>
exceptLife == <<tunnelVars, callVars, poolVars, sharedVars, connVars, tripVars,
  schemaVars,
  replayVars,
  factoryVars,
  timeoutVars,
  rawVars,
  inferVars,
  localVars,
  updateVars,
  drainVars,
  raceVars,
  schedVars>>
exceptTrip == <<tunnelVars, callVars, poolVars, sharedVars, connVars, lifeVars,
  schemaVars,
  replayVars,
  factoryVars,
  timeoutVars,
  rawVars,
  inferVars,
  localVars,
  updateVars,
  drainVars,
  raceVars,
  schedVars>>
exceptSchema == <<tunnelVars, callVars, poolVars, sharedVars, connVars, lifeVars, tripVars,
  replayVars,
  factoryVars,
  timeoutVars,
  rawVars,
  inferVars,
  localVars,
  updateVars,
  drainVars,
  raceVars,
  schedVars>>
exceptReplay == <<tunnelVars, callVars, poolVars, sharedVars,
  connVars, lifeVars, tripVars, schemaVars,
  factoryVars,
  timeoutVars,
  rawVars,
  inferVars,
  localVars,
  updateVars,
  drainVars,
  raceVars,
  schedVars>>
exceptLifeFactory == <<tunnelVars, callVars, poolVars, sharedVars,
  connVars, tripVars, schemaVars,
  replayVars,
  timeoutVars,
  rawVars,
  inferVars,
  localVars,
  updateVars,
  drainVars,
  raceVars,
  schedVars>>
exceptTimeout == <<tunnelVars, callVars, poolVars, sharedVars,
  connVars, lifeVars, tripVars, schemaVars,
  replayVars, factoryVars,
  rawVars,
  inferVars,
  localVars,
  updateVars,
  drainVars,
  raceVars,
  schedVars>>
exceptRaw == <<tunnelVars, callVars, poolVars, sharedVars,
  connVars, lifeVars, tripVars, schemaVars,
  replayVars, factoryVars, timeoutVars,
  inferVars,
  localVars,
  updateVars,
  drainVars,
  raceVars,
  schedVars>>
exceptInfer == <<tunnelVars, callVars, poolVars, sharedVars,
  connVars, lifeVars, tripVars, schemaVars,
  replayVars, factoryVars, timeoutVars, rawVars,
  localVars,
  updateVars,
  drainVars,
  raceVars,
  schedVars>>
exceptLocal == <<tunnelVars, callVars, poolVars, sharedVars,
  connVars, lifeVars, tripVars, schemaVars,
  replayVars, factoryVars, timeoutVars, rawVars,
  inferVars,
  updateVars,
  drainVars,
  raceVars,
  schedVars>>
exceptUpdate == <<tunnelVars, callVars, poolVars, sharedVars,
  connVars, lifeVars, tripVars, schemaVars,
  replayVars, factoryVars, timeoutVars, rawVars,
  inferVars, localVars,
  drainVars,
  raceVars,
  schedVars>>
exceptDrain == <<tunnelVars, callVars, poolVars, sharedVars,
  connVars, lifeVars, tripVars, schemaVars,
  replayVars, factoryVars, timeoutVars, rawVars,
  inferVars, localVars, updateVars,
  raceVars,
  schedVars>>
exceptRace == <<tunnelVars, callVars, poolVars, sharedVars,
  connVars, lifeVars, tripVars, schemaVars,
  replayVars, factoryVars, timeoutVars, rawVars,
  inferVars, localVars, updateVars, drainVars,
  schedVars>>
exceptSched == <<tunnelVars, callVars, poolVars, sharedVars,
  connVars, lifeVars, tripVars, schemaVars,
  replayVars, factoryVars, timeoutVars, rawVars,
  inferVars, localVars, updateVars, drainVars,
  raceVars>>
exceptConn == <<tunnelVars, callVars, poolVars, sharedVars, lifeVars, tripVars,
  schemaVars,
  replayVars,
  factoryVars,
  timeoutVars,
  rawVars,
  inferVars,
  localVars,
  updateVars,
  drainVars,
  raceVars,
  schedVars>>

(***************************************************************************)
(* SSHTunnelManager (database/ssh_tunnel.py)                               *)
(***************************************************************************)
LocalPorts == {50001, 50002}

\* self.ssh_tunnel = None
NoTunnel == [id |-> 0, local_bind_port |-> 0, started |-> FALSE]

TunNoResult == [kind |-> "none", value |-> 0, error |-> 0]
TunReturned(port) == [kind |-> "returned", value |-> port, error |-> 0]
\* `raise` inside the except block: the exception of attempt n propagates
TunRaised(n) == [kind |-> "raised", value |-> 0, error |-> n]

\* what one SSHTunnelForwarder(...) / start() pair can do
StartOutcomes == {"ok", "ctor_error", "start_error"}

TunnelIdle ==
  /\ tun_pc = "idle"
  /\ max_retries = 0
  /\ initial_backoff = 0
  /\ retries = 0
  /\ ssh_tunnel = NoTunnel
  /\ attempt = 0
  /\ bound_port = <<>>
  /\ tun_slept = <<>>
  /\ tun_result = TunNoResult

\* backoff_time = initial_backoff * (2 ** (retries - 1))
BackoffLinear(ib, r) == ib * r
BackoffTime(ib, r) == ib * Pow(2, r - 1)

\* if retries > max_retries: raise
GiveUpEarly(r, mr) == r >= mr
GiveUp(r, mr) == r > mr

\* entry of create_ssh_tunnel(max_retries, initial_backoff): retries = 0
CreateSshTunnel ==
  /\ tun_pc # "loop"
  /\ \E mr \in 0..MaxTunnelRetries, ib \in 1..MaxInitialBackoff :
       /\ max_retries' = mr
       /\ initial_backoff' = ib
  /\ tun_pc' = "loop"
  /\ retries' = 0
  /\ attempt' = 0
  /\ bound_port' = <<>>
  /\ tun_slept' = <<>>
  /\ tun_result' = TunNoResult
  /\ UNCHANGED ssh_tunnel
  /\ UNCHANGED exceptTunnel

\* one iteration of the `while True` loop: construct and start a forwarder;
\* on an exception count it, then either re-raise or sleep and loop
TunnelAttempt ==
  /\ tun_pc = "loop"
  /\ \E how \in StartOutcomes, port \in LocalPorts :
       LET n == attempt + 1
           built == [id |-> n, local_bind_port |-> port, started |-> how = "ok"]
       IN
       /\ attempt' = n
       /\ ssh_tunnel' = IF how = "ctor_error" THEN ssh_tunnel ELSE built
       /\ IF how = "ok"
            THEN /\ bound_port' = Append(bound_port, port)
                 /\ tun_result' = TunReturned(ssh_tunnel'.local_bind_port)
                 /\ tun_pc' = "done"
                 /\ UNCHANGED <<retries, tun_slept>>
            ELSE /\ bound_port' = Append(bound_port, 0)
                 /\ retries' = retries + 1
                 /\ IF GiveUp(retries', max_retries)
                      THEN /\ tun_result' = TunRaised(n)
                           /\ tun_pc' = "done"
                           /\ UNCHANGED tun_slept
                      ELSE /\ tun_slept' = Append(tun_slept,
                                                  BackoffTime(initial_backoff, retries'))
                           /\ tun_pc' = "loop"
                           /\ UNCHANGED tun_result
  /\ UNCHANGED <<max_retries, initial_backoff>>
  /\ UNCHANGED exceptTunnel

(***************************************************************************)
(* Calls, exceptions and the retry wrapper                                 *)
(***************************************************************************)
\* Python's exception classes that occur, each with its base class
ExcParent ==
  [e \in {"ValueError", "IndexError", "AttributeError", "DatabaseConnectionError",
          "pyodbc.Error", "oracledb.Error", "PoolError",
          "TransientError", "FatalError"} |-> "Exception"]
  @@ [e \in {"pyodbc.ProgrammingError", "pyodbc.IntegrityError", "pyodbc.DataError",
             "pyodbc.OperationalError"} |-> "pyodbc.Error"]
  @@ [e \in {"oracledb.DatabaseError", "oracledb.OperationalError"} |-> "oracledb.Error"]

\* isinstance(exc, cls)
RECURSIVE IsInstance(_, _)
IsInstance(exc, cls) ==
  \/ exc = cls
  \/ exc \in DOMAIN ExcParent /\ IsInstance(ExcParent[exc], cls)

NoOutcome == [kind |-> "none", value |-> "None", exc |-> "None", attempt |-> 0]
Return(v) == [kind |-> "returned", value |-> v, exc |-> "None", attempt |-> 0]
Raise(e) == [kind |-> "raised", value |-> "None", exc |-> e, attempt |-> 0]

\* the result of one run of a body: the statements it handed to the client, how
\* it ended, the catalog it left behind, and its client-level effects
Res(s, o, c) == [sent |-> s, outcome |-> o, catalog |-> c, executed |-> 0, queued |-> <<>>]

\* the decorators as written at the call sites: max_retries, delay (seconds),
\* backoff (a fraction <<numerator, denominator>>), exceptions
CrudRetryFourRetries ==
  [max_retries |-> 4, delay |-> 5, backoff |-> <<2, 1>>, exceptions |-> {"Exception"}]
CrudRetry ==
  [max_retries |-> 5, delay |-> 5, backoff |-> <<2, 1>>, exceptions |-> {"Exception"}]
TableExistsRetryDoubling ==
  [max_retries |-> 3, delay |-> 2, backoff |-> <<2, 1>>, exceptions |-> {"Exception"}]
TableExistsRetry ==
  [max_retries |-> 3, delay |-> 2, backoff |-> <<3, 2>>, exceptions |-> {"Exception"}]
OracleClientRetry ==
  [max_retries |-> 5, delay |-> 10, backoff |-> <<2, 1>>, exceptions |-> {"oracledb.Error"}]
SQLServerClientRetry ==
  [max_retries |-> 5, delay |-> 10, backoff |-> <<2, 1>>, exceptions |-> {"pyodbc.Error"}]
\* the retry scenario of the specification: max_retries=5, delay=1, backoff=2
ScenarioRetry ==
  [max_retries |-> 5, delay |-> 1, backoff |-> <<2, 1>>, exceptions |-> {"TransientError"}]
\* an entry point that carries no decorator
Undecorated ==
  [max_retries |-> 0, delay |-> 0, backoff |-> <<1, 1>>, exceptions |-> {}]

\* the decorator on the entry point a call goes to
RetryPolicy(c) ==
  CASE c.layer = "executor" -> ScenarioRetry
    [] c.layer = "client" /\ c.backend = "oracle" -> OracleClientRetry
    [] c.layer = "client" /\ c.backend = "sqlserver" -> SQLServerClientRetry
    [] c.layer = "crud" /\ c.backend = "sqlserver" /\ c.op = "table_exists" -> TableExistsRetry
    [] c.layer = "crud" /\ c.backend \in {"postgresql", "oracle", "sqlserver"}
         /\ c.op \in {"create", "read", "delete"} -> CrudRetry
    [] OTHER -> Undecorated

\* RetryExecutor: an exception is retried when it is an instance of a class on
\* the allow-list
Retryable(exc, cfg) == \E cls \in cfg.exceptions : IsInstance(exc, cls)

\* RetryExecutor: the sleep before the retry that follows failed attempt n,
\* initial_delay * backoff_multiplier^(n-1), as a fraction
SleepTimeOffByOne(cfg, n) == <<cfg.delay * Pow(cfg.backoff[1], n), Pow(cfg.backoff[2], n)>>
SleepTime(cfg, n) == <<cfg.delay * Pow(cfg.backoff[1], n - 1), Pow(cfg.backoff[2], n - 1)>>

\* RetryExecutor: after max_retries retries the last error is re-raised
RetriesLeftOneMore(cfg, failed) == failed <= cfg.max_retries
RetriesLeft(cfg, failed) == failed < cfg.max_retries

\* RetryExecutor around one run of the body whose result is r: return its value,
\* or sleep and run it again, or let its exception reach the caller
Wrapped(cfg, r) ==
  LET n == invocations + 1 IN
  /\ invocations' = n
  /\ sent' = sent \o r.sent
  /\ executed' = executed + r.executed
  /\ failed_query_queue' = failed_query_queue \o r.queued
  /\ catalog' = r.catalog
  /\ raised' = IF r.outcome.kind = "raised" THEN Append(raised, r.outcome.exc) ELSE raised
  /\ IF r.outcome.kind = "raised" /\ Retryable(r.outcome.exc, cfg)
          /\ RetriesLeft(cfg, invocations)
       THEN /\ slept' = Append(slept, SleepTime(cfg, n))
            /\ pc' = "running"
            /\ UNCHANGED outcome
       ELSE /\ outcome' = [r.outcome EXCEPT !.attempt = n]
            /\ pc' = "done"
            /\ UNCHANGED slept
  /\ UNCHANGED call
  /\ UNCHANGED exceptCall

\* the fault the backend has in store for the n-th run of the body: the script
\* of the call makes the first call.failures runs meet fault call.fault
FaultAt(c, n) == IF n <= c.failures THEN c.fault ELSE "none"
\* ... at the statement in position call.fail_at of the body's statements
FailAt(c, n) == IF n <= c.failures THEN c.fail_at ELSE 0

BaseCall ==
  [layer |-> "crud", backend |-> "postgresql", op |-> "create", table |-> <<>>,
   columns_given |-> FALSE, columns |-> <<>>, values |-> <<>>, batch_size |-> 1,
   where |-> "", safe_delete |-> TRUE, fault |-> "none", fail_at |-> 0, failures |-> 0]

CallIdle ==
  /\ pc = "idle"
  /\ call = BaseCall
  /\ invocations = 0
  /\ raised = <<>>
  /\ slept = <<>>
  /\ outcome = NoOutcome
  /\ sent = <<>>
  /\ executed = 0
  /\ failed_query_queue = <<>>
  /\ catalog = [t \in {} |-> <<>>]

(***************************************************************************)
(* The retry scenario: an abstract fallible operation under the wrapper    *)
(***************************************************************************)
ScenarioCalls ==
  {[BaseCall EXCEPT !.layer = "executor", !.backend = "none", !.op = "operation",
                    !.fault = f, !.fail_at = 1, !.failures = k] :
     f \in {"TransientError", "FatalError"}, k \in 0..(ScenarioRetry.max_retries + 1)}

ScenarioOperation ==
  /\ pc = "running"
  /\ call.layer = "executor"
  /\ LET f == FaultAt(call, invocations + 1) IN
     Wrapped(RetryPolicy(call),
             Res(<<>>, IF f = "none" THEN Return("True") ELSE Raise(f), catalog))

(***************************************************************************)
(* Client layer: execute_query of the four relational clients that the     *)
(* CRUD engines drive                                                      *)
(***************************************************************************)
\* what can go wrong when the backend runs a statement
StatementFaults == {"syntax", "constraint", "type_mismatch", "deadlock", "connection_lost"}
\* faults of pool.acquire() / getconn()
AcquireFaults == {"acquire"}

\* the driver's exception for a fault
PyodbcError(f) ==
  CASE f = "syntax" -> "pyodbc.ProgrammingError"
    [] f = "constraint" -> "pyodbc.IntegrityError"
    [] f = "type_mismatch" -> "pyodbc.DataError"
    [] OTHER -> "pyodbc.OperationalError"
OracledbError(f) ==
  IF f \in {"syntax", "constraint", "type_mismatch"}
    THEN "oracledb.DatabaseError" ELSE "oracledb.OperationalError"

\* log_failed_query: the entry put on failed_query_queue
FailedQueryEntry == [query |-> "statement", retry_count |-> 0]

ClientRes(o, n, q) == [sent |-> <<>>, outcome |-> o, catalog |-> catalog,
                       executed |-> n, queued |-> q]

ClientBackends == {"oracle", "sqlserver", "postgresql", "mysql"}

\* SQL Server's client holds one connection and has no pool to acquire from
ClientFaults(b) ==
  IF b = "sqlserver" THEN StatementFaults ELSE StatementFaults \cup AcquireFaults

\* faults of the statement itself, which every execution of it meets again
PermanentFaults == {"syntax", "constraint", "type_mismatch"}

\* how many of the first runs can meet fault f
FailureCounts(f) ==
  IF f \in PermanentFaults THEN {CrudRetry.max_retries + 1}
  ELSE 1..(CrudRetry.max_retries + 1)

\* a statement that succeeds, or one that meets fault f on its first k runs
ClientCalls ==
  {[BaseCall EXCEPT !.layer = "client", !.backend = b, !.op = "execute_query"] :
     b \in ClientBackends}
  \cup UNION {{[BaseCall EXCEPT !.layer = "client", !.backend = x[1], !.op = "execute_query",
                             !.fault = x[2], !.fail_at = 1, !.failures = k] :
                  k \in FailureCounts(x[2])} :
               x \in {y \in ClientBackends \X (StatementFaults \cup AcquireFaults) :
                        y[2] \in ClientFaults(y[1])}}

\* OracleClient.execute_query: acquire outside the try block; a statement error
\* is rolled back and re-raised as DatabaseConnectionError
OracleClientExecuteQuery ==
  /\ pc = "running"
  /\ call.layer = "client" /\ call.backend = "oracle"
  /\ LET f == FaultAt(call, invocations + 1) IN
     Wrapped(RetryPolicy(call),
       CASE f = "none" -> ClientRes(Return("result"), 1, <<>>)
         [] f \in AcquireFaults -> ClientRes(Raise(OracledbError(f)), 0, <<>>)
         [] OTHER -> ClientRes(Raise("DatabaseConnectionError"), 1, <<>>))

\* SQLServerClient.execute_query: a pyodbc.Error is logged to the queue, rolled
\* back and re-raised as it is; there is no pool to acquire from
SQLServerClientExecuteQuery ==
  /\ pc = "running"
  /\ call.layer = "client" /\ call.backend = "sqlserver"
  /\ LET f == FaultAt(call, invocations + 1) IN
     Wrapped(RetryPolicy(call),
       IF f = "none"
         THEN ClientRes(Return("result"), 1, <<>>)
         ELSE ClientRes(Raise(PyodbcError(f)), 1, <<FailedQueryEntry>>))

\* PostgreSQLClient.execute_query: undecorated; getconn's PoolError passes
\* through, a statement error is logged and re-raised as DatabaseConnectionError
PostgreSQLClientExecuteQuery ==
  /\ pc = "running"
  /\ call.layer = "client" /\ call.backend = "postgresql"
  /\ LET f == FaultAt(call, invocations + 1) IN
     Wrapped(RetryPolicy(call),
       CASE f = "none" -> ClientRes(Return("result"), 1, <<>>)
         [] f \in AcquireFaults -> ClientRes(Raise("PoolError"), 0, <<>>)
         [] OTHER -> ClientRes(Raise("DatabaseConnectionError"), 1, <<FailedQueryEntry>>))

\* MySQLClient.execute_query: undecorated; get_connection's PoolError passes
\* through, a statement error is re-raised as DatabaseConnectionError
MySQLClientExecuteQuery ==
  /\ pc = "running"
  /\ call.layer = "client" /\ call.backend = "mysql"
  /\ LET f == FaultAt(call, invocations + 1) IN
     Wrapped(RetryPolicy(call),
       CASE f = "none" -> ClientRes(Return("result"), 1, <<>>)
         [] f \in AcquireFaults -> ClientRes(Raise("PoolError"), 0, <<>>)
         [] OTHER -> ClientRes(Raise("DatabaseConnectionError"), 1, <<>>))

(***************************************************************************)
(* Generic CRUD engines over an abstract client                            *)
(***************************************************************************)
Letters == {"t", "b", "D", "x"}
Digits == {"1"}
WordChars == Letters \cup Digits \cup {"_"}

\* re: `$` also matches just before one trailing newline
StripNewline(name) ==
  IF name # <<>> /\ name[Len(name)] = "\n" THEN SubSeq(name, 1, Len(name) - 1) ELSE name

\* PostgresqlGenericCRUD._validate_table_name: ^[A-Za-z][A-Za-z0-9_]*$
PgValidateTableName(name) ==
  LET n == StripNewline(name) IN
  /\ n # <<>>
  /\ n[1] \in Letters
  /\ \A i \in 2..Len(n) : n[i] \in WordChars

\* OracleGenericCRUD._validate_table_name: ^[A-Za-z0-9_]+$
OracleValidateTableName(name) ==
  LET n == StripNewline(name) IN
  /\ n # <<>>
  /\ \A i \in 1..Len(n) : n[i] \in WordChars

\* statements as the client receives them
Stmt(k, t, cols, rows, w) ==
  [kind |-> k, table |-> t, columns |-> cols, rows |-> rows, where |-> w]
ColumnsQuery(t) == Stmt("columns_query", t, <<>>, <<>>, "")
ExistsQuery(t) == Stmt("exists_query", t, <<>>, <<>>, "")
CreateTable(t, cols) == Stmt("create_table", t, cols, <<>>, "")
Insert(t, cols, rows) == Stmt("insert", t, cols, rows, "")
Select(t, cols, w) == Stmt("select", t, cols, <<>>, w)
Delete(t, w) == Stmt("delete", t, <<>>, <<>>, w)

\* the table a statement's text names: the identifier is interpolated into the
\* text, where a trailing newline is white space
TableKey(t) == StripNewline(t)

\* the catalog's answer for a table name bound as a parameter or a literal
\* (_get_table_columns, show_id=False: ... AND column_name != 'id')
ColumnsOf(cat, t) ==
  IF t \in DOMAIN cat THEN SelectSeq(cat[t], LAMBDA col : col # "id") ELSE <<>>

\* the backend refuses a statement whose table name is no identifier, a CREATE
\* of a table that exists or has no column, and DML on a table that does not
\* exist or with columns it does not have
BackendRejects(st, cat) ==
  CASE st.kind \in {"columns_query", "exists_query"} -> FALSE
    [] st.kind = "create_table" ->
         \/ ~PgValidateTableName(st.table)
         \/ st.columns = <<>>
         \/ TableKey(st.table) \in DOMAIN cat
    [] OTHER ->
         \/ ~PgValidateTableName(st.table)
         \/ TableKey(st.table) \notin DOMAIN cat
         \/ ~(Range(st.columns) \subseteq Range(cat[TableKey(st.table)]))
         \/ \E i \in DOMAIN st.rows : Len(st.rows[i]) # Len(st.columns)

\* the catalog after the backend has run a statement
Apply(st, cat) ==
  IF st.kind = "create_table"
    THEN [t \in DOMAIN cat \cup {TableKey(st.table)} |->
            IF t = TableKey(st.table) THEN st.columns ELSE cat[t]]
    ELSE cat

\* db_client.execute_query / execute_batch_query of statement st, the next after
\* the statements s of this run, fails: by the fault in store or by refusal
ClientFails(st, s, cat, f) == f = Len(s) + 1 \/ BackendRejects(st, cat)

\* the exception a failed client call raises into the CRUD engine
ClientError(backend) ==
  IF backend = "sqlserver" THEN "pyodbc.Error" ELSE "DatabaseConnectionError"

\* for value_tuple in values: if len(value_tuple) != len(columns)
LengthMismatch(values, columns) ==
  \E i \in DOMAIN values : Len(values[i]) # Len(columns)

\* next(row[idx] for row in values if row[idx] is not None): with no None among
\* the values the first row answers, and is indexed beyond its end if shorter
InferIndexError(values, columns) ==
  values # <<>> /\ Len(values[1]) < Len(columns)

Min(S) == CHOOSE x \in S : \A y \in S : x <= y

\* ---- PostgreSQL ---------------------------------------------------------
\* PostgresqlGenericCRUD.create_table_if_not_exists
PgCreateTableIfNotExists(c, columns, s, cat, f) ==
  IF ~PgValidateTableName(c.table) THEN Res(s, Raise("ValueError"), cat)
  ELSE
  LET q == ExistsQuery(c.table)
      s1 == Append(s, q)
  IN
  IF ClientFails(q, s, cat, f) THEN Res(s1, Raise(ClientError(c.backend)), cat)
  ELSE IF c.table \in DOMAIN cat THEN Res(s1, Return("None"), cat)
  ELSE
  LET ct == CreateTable(c.table, columns)
      s2 == Append(s1, ct)
  IN
  IF ClientFails(ct, s1, cat, f) THEN Res(s2, Raise(ClientError(c.backend)), cat)
  ELSE Res(s2, Return("None"), Apply(ct, cat))

\* PostgresqlGenericCRUD.create, `except Exception as e: ... return False`
\* around the batch loop: the error of a failed batch does not leave create
PgInsertFailedReraising(c) == Raise(ClientError(c.backend))
PgInsertFailed(c) == Return("False")

\* PostgresqlGenericCRUD.create, the batch loop: total_batches batches of at
\* most batch_size rows; the first failing batch ends the loop with False
PgInsertBatchesOneMore(c, columns, s, cat, f) ==
  LET n == Len(c.values)
      total_batches == n \div c.batch_size + 1
      end_idx(k) == IF k * c.batch_size < n THEN k * c.batch_size ELSE n
      batch(k) == SubSeq(c.values, (k - 1) * c.batch_size + 1, end_idx(k))
      st(k) == Insert(c.table, columns, batch(k))
      failing == {k \in 1..total_batches :
                    f = Len(s) + k \/ BackendRejects(st(k), cat)}
      last == IF failing = {} THEN total_batches ELSE Min(failing)
  IN Res(s \o [k \in 1..last |-> st(k)],
         IF failing = {} THEN Return("True") ELSE PgInsertFailed(c), cat)
PgInsertBatches(c, columns, s, cat, f) ==
  LET n == Len(c.values)
      total_batches == (n - 1) \div c.batch_size + 1
      end_idx(k) == IF k * c.batch_size < n THEN k * c.batch_size ELSE n
      batch(k) == SubSeq(c.values, (k - 1) * c.batch_size + 1, end_idx(k))
      st(k) == Insert(c.table, columns, batch(k))
      failing == {k \in 1..total_batches :
                    f = Len(s) + k \/ BackendRejects(st(k), cat)}
      last == IF failing = {} THEN total_batches ELSE Min(failing)
  IN Res(s \o [k \in 1..last |-> st(k)],
         IF failing = {} THEN Return("True") ELSE PgInsertFailed(c), cat)

\* PostgresqlGenericCRUD.create
PostgresqlCreateBody(c, cat, f) ==
  IF ~PgValidateTableName(c.table) THEN Res(<<>>, Raise("ValueError"), cat)
  ELSE
  LET q == ColumnsQuery(c.table)
      s1 == IF c.columns_given THEN <<>> ELSE <<q>>
  IN
  IF ~c.columns_given /\ ClientFails(q, <<>>, cat, f)
    THEN Res(s1, Raise(ClientError(c.backend)), cat)
  ELSE
  LET columns == IF c.columns_given THEN c.columns ELSE ColumnsOf(cat, c.table) IN
  IF LengthMismatch(c.values, columns) THEN Res(s1, Raise("ValueError"), cat)
  ELSE
  LET t == PgCreateTableIfNotExists(c, columns, s1, cat, f) IN
  IF t.outcome.kind = "raised" THEN t
  ELSE PgInsertBatches(c, columns, t.sent, t.catalog, f)

\* PostgresqlGenericCRUD.read
PostgresqlReadBody(c, cat, f) ==
  IF ~PgValidateTableName(c.table) THEN Res(<<>>, Raise("ValueError"), cat)
  ELSE
  LET q == ColumnsQuery(c.table)
      s1 == IF c.columns_given THEN <<>> ELSE <<q>>
  IN
  IF ~c.columns_given /\ ClientFails(q, <<>>, cat, f)
    THEN Res(s1, Raise(ClientError(c.backend)), cat)
  ELSE
  LET columns == IF c.columns_given THEN c.columns ELSE ColumnsOf(cat, c.table)
      sel == Select(c.table, columns, c.where)
      s2 == Append(s1, sel)
  IN
  IF ClientFails(sel, s1, cat, f) THEN Res(s2, Raise(ClientError(c.backend)), cat)
  ELSE Res(s2, Return("records"), cat)

\* PostgresqlGenericCRUD.delete
PostgresqlDeleteBody(c, cat, f) ==
  IF ~PgValidateTableName(c.table) THEN Res(<<>>, Raise("ValueError"), cat)
  ELSE IF c.safe_delete /\ c.where = "" THEN Res(<<>>, Raise("ValueError"), cat)
  ELSE
  LET d == Delete(c.table, c.where) IN
  IF ClientFails(d, <<>>, cat, f) THEN Res(<<d>>, Return("False"), cat)
  ELSE Res(<<d>>, Return("True"), cat)

\* ---- Oracle -------------------------------------------------------------
\* OracleGenericCRUD.create_table_if_not_exists
OracleCreateTableIfNotExists(c, columns, s, cat, f) ==
  IF ~OracleValidateTableName(c.table) THEN Res(s, Raise("ValueError"), cat)
  ELSE
  LET q == ExistsQuery(c.table)
      s1 == Append(s, q)
  IN
  IF ClientFails(q, s, cat, f) THEN Res(s1, Raise(ClientError(c.backend)), cat)
  ELSE IF c.table \in DOMAIN cat THEN Res(s1, Return("None"), cat)
  ELSE IF InferIndexError(c.values, columns) THEN Res(s1, Raise("IndexError"), cat)
  ELSE
  LET ct == CreateTable(c.table, columns)
      s2 == Append(s1, ct)
  IN
  IF ClientFails(ct, s1, cat, f) THEN Res(s2, Raise(ClientError(c.backend)), cat)
  ELSE Res(s2, Return("None"), Apply(ct, cat))

\* OracleGenericCRUD.create
OracleCreateBody(c, cat, f) ==
  LET q == ColumnsQuery(c.table)
      s1 == IF c.columns_given THEN <<>> ELSE <<q>>
  IN
  IF ~c.columns_given /\ ClientFails(q, <<>>, cat, f)
    THEN Res(s1, Raise(ClientError(c.backend)), cat)
  ELSE
  LET columns == IF c.columns_given THEN c.columns ELSE ColumnsOf(cat, c.table)
      t == OracleCreateTableIfNotExists(c, columns, s1, cat, f)
  IN
  IF t.outcome.kind = "raised" THEN t
  ELSE IF LengthMismatch(c.values, columns) THEN Res(t.sent, Raise("ValueError"), t.catalog)
  ELSE
  LET ins == Insert(c.table, columns, c.values)
      s2 == Append(t.sent, ins)
  IN
  IF ClientFails(ins, t.sent, t.catalog, f) THEN Res(s2, Return("False"), t.catalog)
  ELSE Res(s2, Return("True"), t.catalog)

\* OracleGenericCRUD.delete
OracleDeleteBody(c, cat, f) ==
  LET d == Delete(c.table, c.where) IN
  IF ClientFails(d, <<>>, cat, f) THEN Res(<<d>>, Return("False"), cat)
  ELSE Res(<<d>>, Return("True"), cat)

\* ---- SQL Server ---------------------------------------------------------
\* SQLServerGenericCRUD._get_table_columns: a failed query yields []
SQLServerGetTableColumns(t, s, cat, f) ==
  LET q == ColumnsQuery(t) IN
  [sent |-> Append(s, q),
   columns |-> IF ClientFails(q, s, cat, f) THEN <<>> ELSE ColumnsOf(cat, t)]

\* SQLServerGenericCRUD.create from the length check on
SQLServerInsert(c, columns, s, cat, f) ==
  IF LengthMismatch(c.values, columns) THEN Res(s, Return("False"), cat)
  ELSE
  LET ins == Insert(c.table, columns, c.values)
      s2 == Append(s, ins)
  IN
  IF ClientFails(ins, s, cat, f) THEN Res(s2, Return("False"), cat)
  ELSE Res(s2, Return("True"), cat)

\* SQLServerGenericCRUD.create with create_table_if_not_exists: every exception
\* is caught and turned into False
SQLServerCreateBody(c, cat, f) ==
  LET g0 == IF c.columns_given THEN [sent |-> <<>>, columns |-> c.columns]
            ELSE SQLServerGetTableColumns(c.table, <<>>, cat, f)
      g1 == SQLServerGetTableColumns(c.table, g0.sent, cat, f)
      ct == CreateTable(c.table, g0.columns)
      s2 == Append(g1.sent, ct)
  IN
  IF g1.columns # <<>> THEN SQLServerInsert(c, g0.columns, g1.sent, cat, f)
  ELSE IF ClientFails(ct, g1.sent, cat, f) THEN Res(s2, Return("False"), cat)
  ELSE SQLServerInsert(c, g0.columns, s2, Apply(ct, cat), f)

\* SQLServerGenericCRUD.table_exists
SQLServerTableExistsBody(c, cat, f) ==
  LET q == ExistsQuery(c.table) IN
  IF ClientFails(q, <<>>, cat, f) THEN Res(<<q>>, Raise(ClientError(c.backend)), cat)
  ELSE Res(<<q>>, Return(IF c.table \in DOMAIN cat THEN "True" ELSE "False"), cat)

\* SQLServerGenericCRUD.delete: table_exists, outside any try block and decorated
\* itself (a query that fails is sent again until its retries are used up and
\* the error reaches delete's own decorator), then the DELETE, restricted or not
SQLServerDeleteBody(c, cat, f) ==
  LET q == ExistsQuery(c.table)
      d == Delete(c.table, c.where)
  IN
  IF ClientFails(q, <<>>, cat, f)
    THEN Res([i \in 1..(TableExistsRetry.max_retries + 1) |-> q],
             Raise(ClientError(c.backend)), cat)
  ELSE IF c.table \notin DOMAIN cat THEN Res(<<q>>, Return("False"), cat)
  ELSE IF ClientFails(d, <<q>>, cat, f) THEN Res(<<q, d>>, Return("False"), cat)
  ELSE Res(<<q, d>>, Return("True"), cat)

\* ---- MySQL --------------------------------------------------------------
\* MySQLGenericCRUD.create from `if columns is None: columns = existing_columns`
MySQLInsert(c, existing, s, cat, f) ==
  LET columns == IF c.columns_given THEN c.columns ELSE existing IN
  IF LengthMismatch(c.values, columns) THEN Res(s, Raise("ValueError"), cat)
  ELSE
  LET ins == Insert(c.table, columns, c.values)
      s2 == Append(s, ins)
  IN
  IF ClientFails(ins, s, cat, f) THEN Res(s2, Raise(ClientError(c.backend)), cat)
  ELSE Res(s2, Return("True"), cat)

\* MySQLGenericCRUD.create_table_if_not_exists followed by the second
\* _get_table_columns of create
MySQLCreateTable(c, s, cat, f) ==
  LET q == ColumnsQuery(c.table)
      s1 == Append(s, q)
      ct == CreateTable(c.table, c.columns)
      s2 == Append(s1, ct)
      s3 == Append(s2, q)
  IN
  IF ClientFails(q, s, cat, f) THEN Res(s1, Raise(ClientError(c.backend)), cat)
  ELSE IF ColumnsOf(cat, c.table) # <<>> THEN Res(s1, Return("None"), cat)
  ELSE IF InferIndexError(c.values, c.columns) THEN Res(s1, Raise("IndexError"), cat)
  ELSE IF ClientFails(ct, s1, cat, f) THEN Res(s2, Raise(ClientError(c.backend)), cat)
  ELSE IF ClientFails(q, s2, Apply(ct, cat), f)
    THEN Res(s3, Raise(ClientError(c.backend)), Apply(ct, cat))
  ELSE Res(s3, Return("None"), Apply(ct, cat))

\* MySQLGenericCRUD.create
MySQLCreateBody(c, cat, f) ==
  LET q == ColumnsQuery(c.table) IN
  IF ClientFails(q, <<>>, cat, f) THEN Res(<<q>>, Raise(ClientError(c.backend)), cat)
  ELSE IF ColumnsOf(cat, c.table) # <<>>
    THEN MySQLInsert(c, ColumnsOf(cat, c.table), <<q>>, cat, f)
  ELSE IF ~c.columns_given THEN Res(<<q>>, Raise("ValueError"), cat)
  ELSE
  LET t == MySQLCreateTable(c, <<q>>, cat, f) IN
  IF t.outcome.kind = "raised" THEN t
  ELSE MySQLInsert(c, ColumnsOf(t.catalog, c.table), t.sent, t.catalog, f)

\* MySQLGenericCRUD.delete
MySQLDeleteBody(c, cat, f) ==
  LET d == Delete(c.table, c.where) IN
  IF ClientFails(d, <<>>, cat, f) THEN Res(<<d>>, Raise(ClientError(c.backend)), cat)
  ELSE Res(<<d>>, Return("True"), cat)

(***************************************************************************)
(* The calls a caller makes, and one action per entry point                *)
(***************************************************************************)
TableNames ==
  {<<"t">>, <<"t", "\n">>, <<"1", "t">>, <<"1", "b", ";", "t">>, <<"D", " ", "x">>, <<>>}

ColumnNames == <<"a", "b">>

\* columns=None, or the first one or more of ColumnNames
ColumnArgs ==
  {[given |-> FALSE, columns |-> <<>>]}
  \cup {[given |-> TRUE, columns |-> SubSeq(ColumnNames, 1, n)] : n \in 1..Len(ColumnNames)}

\* a row with n values
Row(n) == [j \in 1..n |-> j]

\* lists of up to MaxRows rows, each with one to Len(ColumnNames) values
ValueArgs ==
  UNION {{[i \in 1..n |-> Row(lens[i])] : lens \in [1..n -> 1..Len(ColumnNames)]} :
           n \in 0..MaxRows}

BatchSizes(b) == IF b = "postgresql" THEN {1, 2} ELSE {1}

WhereArgs == {"", "id = %s"}

\* safe_delete exists in PostgreSQL's delete only; elsewhere the contract's
\* default (set) is all a caller can have
SafeDeleteArgs(b) == IF b = "postgresql" THEN BOOLEAN ELSE {TRUE}

CrudBackends == {"postgresql", "oracle", "sqlserver", "mysql"}

\* no fault, or a fault at one statement position of the body that is met
\* once or on every run
FailureScripts(cfg) ==
  {[fail_at |-> 0, failures |-> 0]}
  \cup {[fail_at |-> p, failures |-> k] :
          p \in 1..MaxFailAt, k \in {1, cfg.max_retries + 1}}

WithScript(c) ==
  {[c EXCEPT !.fail_at = e.fail_at, !.failures = e.failures,
             !.fault = IF e.fail_at = 0 THEN "none" ELSE "connection_lost"] :
     e \in FailureScripts(RetryPolicy(c))}

CreateCalls ==
  UNION {WithScript([BaseCall EXCEPT !.backend = x[1], !.op = "create", !.table = x[2],
                            !.columns_given = x[3].given, !.columns = x[3].columns,
                            !.values = x[4], !.batch_size = x[5]]) :
           x \in {y \in CrudBackends \X TableNames \X ColumnArgs \X ValueArgs \X {1, 2} :
                    y[5] \in BatchSizes(y[1])}}

ReadCalls ==
  UNION {WithScript([BaseCall EXCEPT !.backend = "postgresql", !.op = "read", !.table = x[1],
                            !.columns_given = x[2].given, !.columns = x[2].columns,
                            !.where = x[3]]) :
           x \in TableNames \X ColumnArgs \X WhereArgs}

DeleteCalls ==
  UNION {WithScript([BaseCall EXCEPT !.backend = x[1], !.op = "delete", !.table = x[2],
                            !.where = x[3], !.safe_delete = x[4]]) :
           x \in {y \in CrudBackends \X TableNames \X WhereArgs \X BOOLEAN :
                    y[4] \in SafeDeleteArgs(y[1])}}

TableExistsCalls ==
  {[BaseCall EXCEPT !.backend = "sqlserver", !.op = "table_exists", !.table = t,
                    !.fault = IF k = 0 THEN "none" ELSE "connection_lost",
                    !.fail_at = IF k = 0 THEN 0 ELSE 1, !.failures = k] :
     t \in TableNames, k \in 0..(TableExistsRetry.max_retries + 1)}

Calls ==
  ScenarioCalls \cup ClientCalls \cup CreateCalls \cup ReadCalls \cup DeleteCalls
  \cup TableExistsCalls

\* a caller makes a call
Call ==
  /\ pc = "idle"
  /\ \E c \in Calls : call' = c
  /\ pc' = "running"
  /\ UNCHANGED <<invocations, raised, slept, outcome, sent, executed,
                 failed_query_queue, catalog>>
  /\ UNCHANGED exceptCall

\* the caller has its result; the records of the call are dropped
TakeResult ==
  /\ pc = "done"
  /\ pc' = "idle"
  /\ call' = BaseCall
  /\ invocations' = 0
  /\ raised' = <<>>
  /\ slept' = <<>>
  /\ outcome' = NoOutcome
  /\ sent' = <<>>
  /\ executed' = 0
  /\ failed_query_queue' = <<>>
  /\ UNCHANGED catalog
  /\ UNCHANGED exceptCall

Running(layer, backend, op) ==
  /\ pc = "running"
  /\ call.layer = layer
  /\ call.backend = backend
  /\ call.op = op

PostgresqlCreate ==
  /\ Running("crud", "postgresql", "create")
  /\ Wrapped(RetryPolicy(call),
             PostgresqlCreateBody(call, catalog, FailAt(call, invocations + 1)))

PostgresqlRead ==
  /\ Running("crud", "postgresql", "read")
  /\ Wrapped(RetryPolicy(call),
             PostgresqlReadBody(call, catalog, FailAt(call, invocations + 1)))

PostgresqlDelete ==
  /\ Running("crud", "postgresql", "delete")
  /\ Wrapped(RetryPolicy(call),
             PostgresqlDeleteBody(call, catalog, FailAt(call, invocations + 1)))

OracleCreate ==
  /\ Running("crud", "oracle", "create")
  /\ Wrapped(RetryPolicy(call),
             OracleCreateBody(call, catalog, FailAt(call, invocations + 1)))

OracleDelete ==
  /\ Running("crud", "oracle", "delete")
  /\ Wrapped(RetryPolicy(call),
             OracleDeleteBody(call, catalog, FailAt(call, invocations + 1)))

SQLServerCreate ==
  /\ Running("crud", "sqlserver", "create")
  /\ Wrapped(RetryPolicy(call),
             SQLServerCreateBody(call, catalog, FailAt(call, invocations + 1)))

SQLServerTableExists ==
  /\ Running("crud", "sqlserver", "table_exists")
  /\ Wrapped(RetryPolicy(call),
             SQLServerTableExistsBody(call, catalog, FailAt(call, invocations + 1)))

SQLServerDelete ==
  /\ Running("crud", "sqlserver", "delete")
  /\ Wrapped(RetryPolicy(call),
             SQLServerDeleteBody(call, catalog, FailAt(call, invocations + 1)))

MySQLCreate ==
  /\ Running("crud", "mysql", "create")
  /\ Wrapped(RetryPolicy(call),
             MySQLCreateBody(call, catalog, FailAt(call, invocations + 1)))

MySQLDelete ==
  /\ Running("crud", "mysql", "delete")
  /\ Wrapped(RetryPolicy(call),
             MySQLDeleteBody(call, catalog, FailAt(call, invocations + 1)))

\* one run of the body of the running call, under its decorator
Invoke ==
  \/ ScenarioOperation
  \/ OracleClientExecuteQuery
  \/ SQLServerClientExecuteQuery
  \/ PostgreSQLClientExecuteQuery
  \/ MySQLClientExecuteQuery
  \/ PostgresqlCreate
  \/ PostgresqlRead
  \/ PostgresqlDelete
  \/ OracleCreate
  \/ OracleDelete
  \/ SQLServerCreate
  \/ SQLServerTableExists
  \/ SQLServerDelete
  \/ MySQLCreate
  \/ MySQLDelete

(***************************************************************************)
(* Pooled clients: PostgreSQLClient, OracleClient, MySQLClient             *)
(***************************************************************************)
Threads == 1..NumThreads

PooledBackends == {"postgresql", "oracle", "mysql"}

\* self.config.get('max_pool_size', 10)
DefaultMaxPoolSize == 10
\* oracledb.create_pool(..., max=10, ...)
OraclePoolMax == 10
\* MySQLConnectionPool(pool_name="mypool", pool_size=10, ...)
MySQLPoolSize == 10

NoConfig == [has_max |-> FALSE, max_pool_size |-> 0]

\* configurations without and with a max_pool_size entry
PoolConfigs ==
  {NoConfig} \cup {[has_max |-> TRUE, max_pool_size |-> n] : n \in 1..MaxPoolSize}

\* the configurations a client of a backend reads a pool size from
ConfigsOf(backend) == IF backend = "postgresql" THEN PoolConfigs ELSE {NoConfig}

\* connect(): the capacity handed to the pool's constructor
MaxconnOneMore(backend, config) ==
  CASE backend = "postgresql" ->
         IF config.has_max THEN config.max_pool_size + 1 ELSE DefaultMaxPoolSize + 1
    [] backend = "oracle" -> OraclePoolMax + 1
    [] OTHER -> MySQLPoolSize + 1
Maxconn(backend, config) ==
  CASE backend = "postgresql" ->
         IF config.has_max THEN config.max_pool_size ELSE DefaultMaxPoolSize
    [] backend = "oracle" -> OraclePoolMax
    [] OTHER -> MySQLPoolSize

PoolIdle ==
  /\ pool_backend = "none"
  /\ pool_config = NoConfig
  /\ pool_max = 0
  /\ conn = [t \in Threads |-> "idle"]
  /\ got = [t \in Threads |-> "nothing"]
  /\ others_out = 0
  /\ leaked = 0

\* connections out of the pool: in a caller's hands, cached by a thread, or lost
CheckedOut ==
  Cardinality({t \in Threads : conn[t] \in {"using", "cached"}}) + others_out + leaked

\* connections the pool can still have out at once: a connection that was never
\* given back keeps its slot
Servable == pool_max - leaked

\* getconn() / acquire() / get_connection() of the pool: a connection is handed
\* out only while fewer than the pool's capacity are out
PoolHasRoom == CheckedOut < pool_max

\* connect() of a pooled client; PostgreSQL's test connection is taken and put
\* back before connect() returns
PoolConnect ==
  /\ pool_backend = "none"
  /\ \E b \in PooledBackends : \E cfg \in ConfigsOf(b) :
       /\ pool_backend' = b
       /\ pool_config' = cfg
       /\ pool_max' = Maxconn(b, cfg)
  /\ UNCHANGED <<conn, got, others_out, leaked>>
  /\ UNCHANGED exceptPool

\* entry of `with self.get_connection()` in thread t.  PostgreSQL reuses the
\* thread's cached connection; an exhausted pool raises PoolError (PostgreSQL,
\* MySQL) or makes the caller wait (Oracle)
GetConnection(t) ==
  /\ pool_backend # "none"
  /\ conn[t] \in {"idle", "cached"}
  /\ IF conn[t] = "cached" \/ PoolHasRoom
       THEN /\ conn' = [conn EXCEPT ![t] = "using"]
            /\ got' = [got EXCEPT ![t] = "connection"]
       ELSE IF pool_backend = "oracle"
         THEN /\ conn' = [conn EXCEPT ![t] = "waiting"]
              /\ got' = [got EXCEPT ![t] = "nothing"]
         ELSE /\ got' = [got EXCEPT ![t] = "PoolError"]
              /\ UNCHANGED conn
  /\ UNCHANGED <<pool_backend, pool_config, pool_max, others_out, leaked>>
  /\ UNCHANGED exceptPool

\* pool.acquire() of a waiting Oracle caller returns once a connection is free
AcquireReturns(t) ==
  /\ conn[t] = "waiting"
  /\ PoolHasRoom
  /\ conn' = [conn EXCEPT ![t] = "using"]
  /\ got' = [got EXCEPT ![t] = "connection"]
  /\ UNCHANGED <<pool_backend, pool_config, pool_max, others_out, leaked>>
  /\ UNCHANGED exceptPool

\* how the block under get_connection can end: normally, with an exception on
\* a live connection, or with an exception on a connection that is broken
BlockEnds == {"ok", "error", "broken"}

\* exit of `with self.get_connection()` in thread t.
\*   PostgreSQL: no release on the normal path (the connection stays cached); on
\*     an exception rollback() then putconn(), and a rollback() that fails on a
\*     broken connection skips putconn(); the handle is cleared either way
\*   Oracle: release() in the finally block
\*   MySQL: close() gives the connection back only if is_connected()
ReleaseConnection(t) ==
  /\ conn[t] = "using"
  /\ \E how \in BlockEnds :
       CASE pool_backend = "postgresql" ->
              /\ conn' = [conn EXCEPT ![t] = IF how = "ok" THEN "cached" ELSE "idle"]
              /\ leaked' = IF how = "broken" THEN leaked + 1 ELSE leaked
         [] pool_backend = "oracle" ->
              /\ conn' = [conn EXCEPT ![t] = "idle"]
              /\ UNCHANGED leaked
         [] OTHER ->
              /\ conn' = [conn EXCEPT ![t] = "idle"]
              /\ leaked' = IF how = "broken" THEN leaked + 1 ELSE leaked
  /\ UNCHANGED <<pool_backend, pool_config, pool_max, got, others_out>>
  /\ UNCHANGED exceptPool

\* another caller of the same client obtains a connection through get_connection
OtherAcquires ==
  /\ pool_backend # "none"
  /\ PoolHasRoom
  /\ others_out' = others_out + 1
  /\ UNCHANGED <<pool_backend, pool_config, pool_max, conn, got, leaked>>
  /\ UNCHANGED exceptPool

\* another caller's connection goes back to the pool
OtherReleases ==
  /\ others_out > 0
  /\ others_out' = others_out - 1
  /\ UNCHANGED <<pool_backend, pool_config, pool_max, conn, got, leaked>>
  /\ UNCHANGED exceptPool

(***************************************************************************)
(* SQLServerClient: one pyodbc connection for every caller of the client   *)
(***************************************************************************)
\* connect() stores a single pyodbc connection in self.connection; every entry
\* point uses it directly, without a lock.  A caller's call is followed through
\* its two steps on that connection: the cursor's execute, then the commit or
\* the rollback; between them other callers' steps can run.
SharedIdle ==
  /\ sq_pc = [t \in Threads |-> "idle"]
  /\ sq_op = [t \in Threads |-> "none"]
  /\ sq_stmt = [t \in Threads |-> [state |-> "none", by |-> 0]]

\* commit() / rollback() on self.connection ends the connection's transaction,
\* with every statement executed on it and still open, whoever executed it
EndTransaction(how, t) ==
  [u \in Threads |-> IF sq_stmt[u].state = "open" THEN [state |-> how, by |-> t]
                     ELSE sq_stmt[u]]

\* cursor = self.connection.cursor(); cursor.execute(query, params) /
\* cursor.executemany(query, chunk); a SELECT returns cursor.fetchall() at once
SQLServerCursorExecute(t) ==
  /\ sq_pc[t] = "idle"
  /\ \E op \in {"execute_query", "execute_batch_query"} :
     \E kind \in (IF op = "execute_query" THEN {"select", "write"} ELSE {"write"}) :
     \E ok \in BOOLEAN :
       /\ sq_op' = [sq_op EXCEPT ![t] = op]
       /\ IF ~ok
          THEN /\ sq_pc' = [sq_pc EXCEPT ![t] = "failed"]
               /\ sq_stmt' = [sq_stmt EXCEPT ![t] = [state |-> "failed", by |-> 0]]
          ELSE IF kind = "select"
          THEN UNCHANGED <<sq_pc, sq_stmt>>
          ELSE /\ sq_pc' = [sq_pc EXCEPT ![t] = "executed"]
               /\ sq_stmt' = [sq_stmt EXCEPT ![t] = [state |-> "open", by |-> 0]]
  /\ UNCHANGED exceptShared

\* self.connection.commit(); return cursor.rowcount
SQLServerCommit(t) ==
  /\ sq_pc[t] = "executed"
  /\ sq_stmt' = EndTransaction("committed", t)
  /\ sq_pc' = [sq_pc EXCEPT ![t] = "idle"]
  /\ UNCHANGED sq_op
  /\ UNCHANGED exceptShared

\* except pyodbc.Error: ... self.connection.rollback(); raise
SQLServerRollback(t) ==
  /\ sq_pc[t] = "failed"
  /\ sq_stmt' = EndTransaction("discarded", t)
  /\ sq_pc' = [sq_pc EXCEPT ![t] = "idle"]
  /\ UNCHANGED sq_op
  /\ UNCHANGED exceptShared

(***************************************************************************)
(* The entry points of the six clients, seen from the connection: what each *)
(* does with the connection it uses, and what it hands to its caller         *)
(***************************************************************************)
Clients == {"mysql", "postgresql", "mongodb", "sqlite", "sqlserver", "oracle"}

\* the entry points each client defines
EntryPoints(client) ==
  CASE client \in {"oracle", "mysql", "postgresql"} ->
         {"connect", "execute_query", "execute_batch_query", "execute_transaction"}
    [] client = "sqlserver" -> {"connect", "execute_query", "execute_batch_query"}
    [] OTHER -> {"connect", "execute_query"}

\* the statements a caller hands to execute_query:
\*   select           SELECT ...                      (read)
\*   with_select      WITH x AS (...) SELECT ...      (read)
\*   insert           INSERT ...                      (write)
\*   insert_returning INSERT ... RETURNING ...        (write that yields rows)
\*   find, insert_one the operations of a MongoDB query document
Statements(client) ==
  CASE client = "mongodb" -> {"find", "insert_one"}
    [] client = "postgresql" -> {"select", "with_select", "insert", "insert_returning"}
    [] OTHER -> {"select", "with_select", "insert"}

ReadLike(stmt) == stmt \in {"select", "with_select", "find"}
\* query.strip().lower().startswith("select")
StartsWithSelect(stmt) == stmt = "select"
\* cursor.description is set once the statement has produced a result set
HasDescription(stmt) == stmt \in {"select", "with_select", "insert_returning"}

\* statements of the list handed to execute_transaction
TransactionLength == 2

\* what the backend or the caller's arguments have in store for the call:
\*   connect_error    the backend refuses the connection
\*   acquire_error    no connection can be had from the pool
\*   statement_error  the backend rejects the statement at fail_at
\*   other_error      item fail_at of the queries list is not a (query, params) pair
BackendFaults == {"connect_error", "acquire_error", "statement_error"}

FaultsOf(client, op) ==
  {"none"} \cup
  CASE op = "connect" -> {"connect_error"}
    [] op = "execute_transaction" -> {"acquire_error", "statement_error", "other_error"}
    [] client \in {"oracle", "mysql", "postgresql"} -> {"acquire_error", "statement_error"}
    [] OTHER -> {"statement_error"}

ConnIdle ==
  /\ co_pc = "idle"
  /\ co_call = [client |-> "none", op |-> "none", stmt |-> "none", fault |-> "none", fail_at |-> 0]
  /\ co_log = <<>>
  /\ co_result = [kind |-> "none", exc |-> "none"]

ConnRes(l, k, e) == [log |-> l, kind |-> k, exc |-> e]

\* the statements of the list that ran before the fault was met
Writes(c) ==
  [i \in 1..(IF c.fault \in {"statement_error", "other_error"}
             THEN c.fail_at - 1 ELSE TransactionLength) |-> "write"]

Executes(stmt) == IF stmt \in {"insert", "insert_returning", "insert_one"} THEN "write" ELSE "read"

\* ---- the caller ---------------------------------------------------------------
ClientCall ==
  /\ co_pc = "idle"
  /\ \E cl \in Clients : \E op \in EntryPoints(cl) : \E f \in FaultsOf(cl, op) :
     \E st \in (IF op = "execute_query" THEN Statements(cl) ELSE {"insert"}) :
     \E k \in (IF op = "execute_transaction" /\ f \in {"statement_error", "other_error"}
               THEN 1..TransactionLength ELSE {1}) :
       co_call' = [client |-> cl, op |-> op,
                   stmt |-> IF op = "connect" THEN "none" ELSE st,
                   fault |-> f, fail_at |-> k]
  /\ co_pc' = "running"
  /\ co_log' = <<>>
  /\ co_result' = [kind |-> "none", exc |-> "none"]
  /\ UNCHANGED exceptConn

ClientTakeResult ==
  /\ co_pc = "done"
  /\ co_pc' = "idle"
  /\ co_call' = [client |-> "none", op |-> "none", stmt |-> "none", fault |-> "none", fail_at |-> 0]
  /\ co_log' = <<>>
  /\ co_result' = [kind |-> "none", exc |-> "none"]
  /\ UNCHANGED exceptConn

ConnRunning(client, op) ==
  co_pc = "running" /\ co_call.client = client /\ co_call.op = op

Finish(r) ==
  /\ co_log' = r.log
  /\ co_result' = [kind |-> r.kind, exc |-> r.exc]
  /\ co_pc' = "done"
  /\ UNCHANGED co_call
  /\ UNCHANGED exceptConn

\* ---- connect ---------------------------------------------------------------
\* each connect() catches its driver's error class and raises
\* DatabaseConnectionError(err); MongoDBClient catches ConfigurationError
ClientConnect ==
  /\ co_pc = "running" /\ co_call.op = "connect"
  /\ LET c == co_call IN
     Finish(
       IF c.fault = "connect_error"
         THEN ConnRes(<<>>, "raised", "DatabaseConnectionError")
         ELSE ConnRes(<<>>, "returned", "none"))

\* ---- OracleClient ------------------------------------------------------------
\* get_connection: pool.acquire() before the body, pool.release() in finally
OracleExecuteQuery ==
  /\ ConnRunning("oracle", "execute_query")
  /\ LET c == co_call IN
     Finish(
       CASE c.fault = "acquire_error" -> ConnRes(<<>>, "raised", "oracledb.Error")
         [] c.fault = "statement_error" ->
              ConnRes(<<"acquire", "failed", "rollback", "release">>,
                      "raised", "DatabaseConnectionError")
         [] OTHER ->
              IF StartsWithSelect(c.stmt)
                THEN ConnRes(<<"acquire", Executes(c.stmt), "release">>, "rows", "none")
                ELSE ConnRes(<<"acquire", Executes(c.stmt), "commit", "release">>, "count", "none"))

OracleExecuteBatchQuery ==
  /\ ConnRunning("oracle", "execute_batch_query")
  /\ LET c == co_call IN
     Finish(
       CASE c.fault = "acquire_error" -> ConnRes(<<>>, "raised", "oracledb.Error")
         [] c.fault = "statement_error" ->
              ConnRes(<<"acquire", "failed", "rollback", "release">>,
                      "raised", "DatabaseConnectionError")
         [] OTHER -> ConnRes(<<"acquire", "write", "commit", "release">>, "returned", "none"))

OracleExecuteTransaction ==
  /\ ConnRunning("oracle", "execute_transaction")
  /\ LET c == co_call IN
     Finish(
       CASE c.fault = "acquire_error" -> ConnRes(<<>>, "raised", "oracledb.Error")
         [] c.fault = "statement_error" ->
              ConnRes(<<"acquire">> \o Writes(c) \o <<"failed", "rollback", "release">>,
                      "raised", "DatabaseConnectionError")
         [] c.fault = "other_error" ->
              ConnRes(<<"acquire">> \o Writes(c) \o <<"release">>, "raised", "ValueError")
         [] OTHER ->
              ConnRes(<<"acquire">> \o Writes(c) \o <<"commit", "release">>, "returned", "none"))

\* ---- MySQLClient -------------------------------------------------------------
\* get_connection: connection_pool.get_connection() before the body,
\* connection.close() in finally, which gives the connection back to the pool
MySQLExecuteQuery ==
  /\ ConnRunning("mysql", "execute_query")
  /\ LET c == co_call IN
     Finish(
       CASE c.fault = "acquire_error" -> ConnRes(<<>>, "raised", "mysql.connector.PoolError")
         [] c.fault = "statement_error" ->
              ConnRes(<<"acquire", "failed", "release">>, "raised", "DatabaseConnectionError")
         [] OTHER ->
              IF StartsWithSelect(c.stmt)
                THEN ConnRes(<<"acquire", Executes(c.stmt), "release">>, "rows", "none")
                ELSE ConnRes(<<"acquire", Executes(c.stmt), "commit", "release">>, "count", "none"))

MySQLExecuteBatchQuery ==
  /\ ConnRunning("mysql", "execute_batch_query")
  /\ LET c == co_call IN
     Finish(
       CASE c.fault = "acquire_error" -> ConnRes(<<>>, "raised", "mysql.connector.PoolError")
         [] c.fault = "statement_error" ->
              ConnRes(<<"acquire", "failed", "rollback", "release">>,
                      "raised", "DatabaseConnectionError")
         [] OTHER -> ConnRes(<<"acquire", "write", "commit", "release">>, "returned", "none"))

MySQLExecuteTransaction ==
  /\ ConnRunning("mysql", "execute_transaction")
  /\ LET c == co_call IN
     Finish(
       CASE c.fault = "acquire_error" -> ConnRes(<<>>, "raised", "mysql.connector.PoolError")
         [] c.fault = "statement_error" ->
              ConnRes(<<"acquire">> \o Writes(c) \o <<"failed", "rollback", "release">>,
                      "raised", "DatabaseConnectionError")
         [] c.fault = "other_error" ->
              ConnRes(<<"acquire">> \o Writes(c) \o <<"release">>, "raised", "ValueError")
         [] OTHER ->
              ConnRes(<<"acquire">> \o Writes(c) \o <<"commit", "release">>, "returned", "none"))

\* ---- PostgreSQLClient --------------------------------------------------------
\* get_connection: getconn() unless the thread has a connection; on an exception
\* rollback() and putconn(); on success the thread keeps the connection
PostgreSQLExecuteQuery ==
  /\ ConnRunning("postgresql", "execute_query")
  /\ LET c == co_call IN
     Finish(
       CASE c.fault = "acquire_error" -> ConnRes(<<>>, "raised", "psycopg2.pool.PoolError")
         [] c.fault = "statement_error" ->
              ConnRes(<<"acquire", "failed", "rollback", "release">>,
                      "raised", "DatabaseConnectionError")
         [] OTHER ->
              IF HasDescription(c.stmt)
                THEN ConnRes(<<"acquire", Executes(c.stmt)>>, "rows", "none")
                ELSE ConnRes(<<"acquire", Executes(c.stmt), "commit">>, "count", "none"))

PostgreSQLExecuteBatchQuery ==
  /\ ConnRunning("postgresql", "execute_batch_query")
  /\ LET c == co_call IN
     Finish(
       CASE c.fault = "acquire_error" -> ConnRes(<<>>, "raised", "psycopg2.pool.PoolError")
         [] c.fault = "statement_error" ->
              ConnRes(<<"acquire", "failed", "rollback", "rollback", "release">>,
                      "raised", "DatabaseConnectionError")
         [] OTHER -> ConnRes(<<"acquire", "write", "commit">>, "returned", "none"))

PostgreSQLExecuteTransaction ==
  /\ ConnRunning("postgresql", "execute_transaction")
  /\ LET c == co_call IN
     Finish(
       CASE c.fault = "acquire_error" -> ConnRes(<<>>, "raised", "psycopg2.pool.PoolError")
         [] c.fault = "statement_error" ->
              ConnRes(<<"acquire">> \o Writes(c) \o <<"failed", "rollback", "rollback", "release">>,
                      "raised", "DatabaseConnectionError")
         [] c.fault = "other_error" ->
              ConnRes(<<"acquire">> \o Writes(c) \o <<"rollback", "release">>,
                      "raised", "ValueError")
         [] OTHER -> ConnRes(<<"acquire">> \o Writes(c) \o <<"commit">>, "returned", "none"))

\* ---- SQLServerClient: self.connection, never given back ---------------------
\* the log is that of the last run of the body under the retry decorator
SQLServerExecuteQuery ==
  /\ ConnRunning("sqlserver", "execute_query")
  /\ LET c == co_call IN
     Finish(
       IF c.fault = "statement_error"
         THEN ConnRes(<<"failed", "rollback">>, "raised", "pyodbc.Error")
         ELSE IF StartsWithSelect(c.stmt)
           THEN ConnRes(<<Executes(c.stmt)>>, "rows", "none")
           ELSE ConnRes(<<Executes(c.stmt), "commit">>, "count", "none"))

SQLServerExecuteBatchQuery ==
  /\ ConnRunning("sqlserver", "execute_batch_query")
  /\ LET c == co_call IN
     Finish(
       IF c.fault = "statement_error"
         THEN ConnRes(<<"failed", "rollback">>, "raised", "pyodbc.Error")
         ELSE ConnRes(<<"write", "commit">>, "returned", "none"))

\* ---- SQLiteClient: self.connection, no handler at all ------------------------
SQLiteExecuteQuery ==
  /\ ConnRunning("sqlite", "execute_query")
  /\ LET c == co_call IN
     Finish(
       IF c.fault = "statement_error"
         THEN ConnRes(<<"failed">>, "raised", "sqlite3.Error")
         ELSE IF StartsWithSelect(c.stmt)
           THEN ConnRes(<<Executes(c.stmt)>>, "rows", "none")
           ELSE ConnRes(<<Executes(c.stmt), "commit">>, "count", "none"))

\* ---- MongoDBClient: list(find(...)) or the driver's result object ------------
MongoDBExecuteQuery ==
  /\ ConnRunning("mongodb", "execute_query")
  /\ LET c == co_call IN
     Finish(
       IF c.fault = "statement_error"
         THEN ConnRes(<<"failed">>, "raised", "pymongo.errors.PyMongoError")
         ELSE IF c.stmt = "find"
           THEN ConnRes(<<"read">>, "rows", "none")
           ELSE ConnRes(<<"write">>, "object", "none"))

(***************************************************************************)
(* The life of one client object: __init__, connect(), disconnect()        *)
(***************************************************************************)
\* self.config of a client.  Only MongoDBClient reads an 'ssh' entry, so only
\* its configurations carry one; `database` tells whether the key is still there
\* (MongoDBClient.connect pops it)
LoopbackHost == "127.0.0.1"

ConfigsFor(client) ==
  { [ssh |-> s, database |-> TRUE, host |-> "db.remote", port |-> 27017] :
      s \in (IF client = "mongodb" THEN BOOLEAN ELSE {FALSE}) }

NoManager == [set |-> FALSE, tunnel |-> "none", port |-> 0]

LifeIdle ==
  /\ lc_client = "none"
  /\ lc_config = [ssh |-> FALSE, database |-> FALSE, host |-> "none", port |-> 0]
  /\ lc_handle = 0
  /\ lc_objects = <<>>
  /\ lc_manager = NoManager
  /\ lc_ops = <<>>
  /\ lc_trace = <<>>

\* BaseDatabase.__init__: self.config = config; self.connection = None; the
\* subclasses add self.pool = None, self.connection_pool = None,
\* self.ssh_tunnel_manager = None
Construct ==
  /\ lc_client = "none"
  /\ \E cl \in Clients : \E cfg \in ConfigsFor(cl) :
       /\ lc_client' = cl
       /\ lc_config' = cfg
  /\ lc_handle' = 0
  /\ lc_objects' = <<>>
  /\ lc_manager' = NoManager
  /\ lc_ops' = <<>>
  /\ lc_trace' = <<>>
  /\ UNCHANGED exceptLife

\* calls a caller makes on one client object
MaxOps == 4

CanCall(client) == lc_client = client /\ Len(lc_ops) < MaxOps

Did(op, res) == lc_ops' = Append(lc_ops, [op |-> op, ssh |-> lc_config.ssh, result |-> res])

DriverCall(fn, obj, was, host, port) ==
  [op |-> Len(lc_ops) + 1, call |-> fn, obj |-> obj, was |-> was, host |-> host, port |-> port]

\* `if self.connection:` / `if self.pool:` / `if self.ssh_tunnel_manager:`
TruthyAlways(ref) == TRUE
Truthy(ref) == ref # 0

\* connect() of the five relational clients: the driver builds the pool or the
\* connection for the configured host and port, or fails with its error class,
\* which connect() raises as DatabaseConnectionError
BackendConnect(fn) ==
  /\ \E ok \in BOOLEAN :
       IF ok
         THEN /\ lc_objects' = Append(lc_objects, "open")
              /\ lc_handle' = Len(lc_objects) + 1
              /\ lc_trace' = Append(lc_trace,
                   DriverCall(fn, Len(lc_objects) + 1, "none", lc_config.host, lc_config.port))
              /\ Did("connect", "returned")
         ELSE /\ lc_trace' = Append(lc_trace,
                   DriverCall(fn, 0, "none", lc_config.host, lc_config.port))
              /\ Did("connect", "DatabaseConnectionError")
              /\ UNCHANGED <<lc_handle, lc_objects>>
  /\ UNCHANGED <<lc_client, lc_config, lc_manager>>
  /\ UNCHANGED exceptLife

OracleClientConnect == CanCall("oracle") /\ BackendConnect("oracledb.create_pool")
MySQLClientConnect == CanCall("mysql") /\ BackendConnect("MySQLConnectionPool")
PostgreSQLClientConnect == CanCall("postgresql") /\ BackendConnect("ThreadedConnectionPool")
SQLServerClientConnect == CanCall("sqlserver") /\ BackendConnect("pyodbc.connect")
SQLiteClientConnect == CanCall("sqlite") /\ BackendConnect("sqlite3.connect")

\* disconnect() of a client that closes what its attribute references:
\*   raises_closed  close() of an object closed before raises the driver's error
\*   clears         the attribute is set to None afterwards
BackendDisconnect(fn, raises_closed, clears) ==
  /\ IF ~Truthy(lc_handle)
       THEN /\ Did("disconnect", "returned")
            /\ UNCHANGED <<lc_handle, lc_objects, lc_trace>>
       ELSE IF lc_handle = 0
       THEN /\ lc_trace' = Append(lc_trace, DriverCall(fn, 0, "none", "none", 0))
            /\ Did("disconnect", "AttributeError")
            /\ UNCHANGED <<lc_handle, lc_objects>>
       ELSE /\ lc_trace' = Append(lc_trace,
                 DriverCall(fn, lc_handle, lc_objects[lc_handle], "none", 0))
            /\ IF lc_objects[lc_handle] = "closed" /\ raises_closed
                 THEN /\ Did("disconnect", "DriverError")
                      /\ UNCHANGED <<lc_handle, lc_objects>>
                 ELSE /\ lc_objects' = [lc_objects EXCEPT ![lc_handle] = "closed"]
                      /\ lc_handle' = IF clears THEN 0 ELSE lc_handle
                      /\ Did("disconnect", "returned")
  /\ UNCHANGED <<lc_client, lc_config, lc_manager>>
  /\ UNCHANGED exceptLife

\* if self.pool: self.pool.close()
OracleClientDisconnect == CanCall("oracle") /\ BackendDisconnect("pool.close", TRUE, FALSE)
\* if self.connection_pool: ...; self.connection_pool.closeall(); self.connection_pool = None
PostgreSQLClientDisconnect ==
  CanCall("postgresql") /\ BackendDisconnect("connection_pool.closeall", TRUE, TRUE)
\* if self.connection: self.connection.close()
SQLServerClientDisconnect ==
  CanCall("sqlserver") /\ BackendDisconnect("connection.close", TRUE, FALSE)
SQLiteClientDisconnect ==
  CanCall("sqlite") /\ BackendDisconnect("connection.close", FALSE, FALSE)

\* if self.connection_pool: self.connection_pool = None  (the pool has no close)
MySQLClientDisconnect ==
  /\ CanCall("mysql")
  /\ lc_handle' = IF Truthy(lc_handle) THEN 0 ELSE lc_handle
  /\ Did("disconnect", "returned")
  /\ UNCHANGED <<lc_client, lc_config, lc_objects, lc_manager, lc_trace>>
  /\ UNCHANGED exceptLife

\* ---- MongoDBClient ------------------------------------------------------------
\* what MongoClient is given: the configured target, which connect() has
\* rewritten to the tunnel's local end when it started one
DirectTarget(cfg, local_bind_port) == [host |-> cfg.host, port |-> cfg.port]
MongoTarget(cfg, local_bind_port) ==
  IF local_bind_port # 0
    THEN [host |-> LoopbackHost, port |-> local_bind_port]
    ELSE [host |-> cfg.host, port |-> cfg.port]

\* connect(): with an 'ssh' entry, pop it, build the manager and create the
\* tunnel (port 0: create_ssh_tunnel raised), rewrite host and port; then pop
\* 'database' and 'collection' and construct MongoClient
MongoDBClientConnect ==
  /\ CanCall("mongodb")
  /\ \E tunnel_port \in (IF lc_config.ssh THEN LocalPorts \cup {0} ELSE {0}) :
     \E ok \in BOOLEAN :
       LET tunnelled == lc_config.ssh
           tunnel_failed == tunnelled /\ tunnel_port = 0
           target == MongoTarget(lc_config, tunnel_port)
           after_tunnel ==
             IF tunnelled
               THEN Append(lc_trace, DriverCall("tunnel.start", 0, "none", LoopbackHost, tunnel_port))
               ELSE lc_trace
           key_error == ~tunnel_failed /\ ~lc_config.database
           constructs == ~tunnel_failed /\ ~key_error
       IN
       /\ lc_manager' =
            IF tunnelled
              THEN [set |-> TRUE, tunnel |-> IF tunnel_failed THEN "failed" ELSE "open",
                    port |-> tunnel_port]
              ELSE lc_manager
       /\ lc_config' =
            [ssh |-> FALSE,
             database |-> IF tunnel_failed THEN lc_config.database ELSE FALSE,
             host |-> IF tunnel_failed THEN lc_config.host ELSE target.host,
             port |-> IF tunnel_failed THEN lc_config.port ELSE target.port]
       /\ lc_trace' =
            IF constructs
              THEN Append(after_tunnel,
                     DriverCall("MongoClient",
                                IF ok THEN Len(lc_objects) + 1 ELSE 0, "none",
                                target.host, target.port))
              ELSE after_tunnel
       /\ IF constructs /\ ok
            THEN /\ lc_objects' = Append(lc_objects, "open")
                 /\ lc_handle' = Len(lc_objects) + 1
            ELSE UNCHANGED <<lc_objects, lc_handle>>
       /\ Did("connect",
              CASE tunnel_failed -> "TunnelError"
                [] key_error -> "KeyError"
                [] ~ok -> "DatabaseConnectionError"
                [] OTHER -> "returned")
  /\ UNCHANGED lc_client
  /\ UNCHANGED exceptLife

\* disconnect(): if self.connection: self.connection.close();
\* if self.ssh_tunnel_manager: self.ssh_tunnel_manager.close()
MongoDBClientDisconnect ==
  /\ CanCall("mongodb")
  /\ LET closes == Truthy(lc_handle)
         after_close ==
           IF closes
             THEN Append(lc_trace,
                    DriverCall("connection.close", lc_handle,
                               IF lc_handle = 0 THEN "none" ELSE lc_objects[lc_handle],
                               "none", 0))
             ELSE lc_trace
         failed == closes /\ lc_handle = 0
         closes_tunnel == ~failed /\ Truthy(IF lc_manager.set THEN 1 ELSE 0)
     IN
     /\ lc_objects' = IF closes /\ ~failed
                        THEN [lc_objects EXCEPT ![lc_handle] = "closed"]
                        ELSE lc_objects
     /\ lc_trace' =
          IF closes_tunnel
            THEN Append(after_close,
                   DriverCall("tunnel.close", 0, lc_manager.tunnel, LoopbackHost, lc_manager.port))
            ELSE after_close
     /\ lc_manager' =
          IF closes_tunnel /\ lc_manager.set /\ lc_manager.tunnel = "open"
            THEN [lc_manager EXCEPT !.tunnel = "closed"]
            ELSE lc_manager
     /\ Did("disconnect", IF failed THEN "AttributeError" ELSE "returned")
  /\ UNCHANGED <<lc_client, lc_config, lc_handle>>
  /\ UNCHANGED exceptLife

(***************************************************************************)
(* Round trip: PostgresqlGenericCRUD.create on a table that does not exist, *)
(* then read with default arguments                                         *)
(***************************************************************************)
\* most rows a caller hands to create
MaxRoundTripRows == 3

\* create("t", values, columns, batch_size): up to MaxRoundTripRows rows with
\* one value, 1 or 2, per column; batch sizes 1 and 2
RoundTripCalls ==
  UNION {{[BaseCall EXCEPT !.op = "create", !.table = <<"t">>, !.columns_given = TRUE,
                           !.columns = columns, !.values = values, !.batch_size = b] :
            values \in UNION {[1..n -> [1..Len(columns) -> 1..2]] :
                                n \in 0..MaxRoundTripRows},
            b \in 1..2} :
         columns \in {<<"a">>, <<"a", "b">>, <<"id", "a">>}}

TripIdle ==
  /\ rt_pc = "idle"
  /\ rt_call = BaseCall
  /\ rt_created = NoOutcome
  /\ rt_catalog = [t \in {} |-> <<>>]
  /\ rt_stored = <<>>
  /\ rt_read = NoOutcome
  /\ rt_records = <<>>
  /\ rt_sent = <<>>

\* a row of values as the record of its columns
AsRecord(columns, row) ==
  [col \in Range(columns) |-> row[CHOOSE j \in DOMAIN columns : columns[j] = col]]

\* the rows the INSERT statements among s have put into the table
RECURSIVE Stored(_)
Stored(s) ==
  IF s = <<>> THEN <<>>
  ELSE LET st == Head(s) IN
       (IF st.kind = "insert"
          THEN [i \in DOMAIN st.rows |-> AsRecord(st.columns, st.rows[i])]
          ELSE <<>>) \o Stored(Tail(s))

\* the result set of SELECT <columns> FROM <table>, fetched as dictionaries
Fetch(sel, stored) ==
  [i \in DOMAIN stored |-> [col \in Range(sel.columns) |-> stored[i][col]]]

\* create(table, values, columns) with no fault in store
RoundTripCreate ==
  /\ rt_pc = "idle"
  /\ \E c \in RoundTripCalls :
       LET r == PostgresqlCreateBody(c, [t \in {} |-> <<>>], 0) IN
       /\ rt_call' = c
       /\ rt_created' = r.outcome
       /\ rt_catalog' = r.catalog
       /\ rt_stored' = Stored(r.sent)
       /\ rt_sent' = r.sent
  /\ rt_pc' = "created"
  /\ UNCHANGED <<rt_read, rt_records>>
  /\ UNCHANGED exceptTrip

\* read(table): columns=None, where="", show_id=False
RoundTripRead ==
  /\ rt_pc = "created"
  /\ LET c == [BaseCall EXCEPT !.op = "read", !.table = rt_call.table]
         r == PostgresqlReadBody(c, rt_catalog, 0)
     IN
     /\ rt_read' = r.outcome
     /\ rt_records' = IF r.outcome.kind = "returned"
                        THEN Fetch(r.sent[Len(r.sent)], rt_stored)
                        ELSE <<>>
  /\ rt_pc' = "read"
  /\ UNCHANGED <<rt_call, rt_created, rt_catalog, rt_stored, rt_sent>>
  /\ UNCHANGED exceptTrip

\* the caller drops the table and starts over
RoundTripReset ==
  /\ rt_pc = "read"
  /\ rt_pc' = "idle"
  /\ rt_call' = BaseCall
  /\ rt_created' = NoOutcome
  /\ rt_catalog' = [t \in {} |-> <<>>]
  /\ rt_stored' = <<>>
  /\ rt_read' = NoOutcome
  /\ rt_records' = <<>>
  /\ rt_sent' = <<>>
  /\ UNCHANGED exceptTrip

(***************************************************************************)
(* create_table_if_not_exists of the four CRUD engines, called repeatedly   *)
(* with the same table, columns and sample values                           *)
(***************************************************************************)
\* calls of create_table_if_not_exists made in a row
MaxSchemaCalls == 3

SchemaIdle ==
  /\ ct_call = BaseCall
  /\ ct_catalog = [t \in {} |-> <<>>]
  /\ ct_results = <<>>

\* MySQLGenericCRUD.create_table_if_not_exists: the table exists if
\* _get_table_columns(table) names a column
MySQLCreateTableIfNotExists(c, cat) ==
  LET q == ColumnsQuery(c.table)
      ct == CreateTable(c.table, c.columns)
  IN
  IF ColumnsOf(cat, c.table) # <<>> THEN Res(<<q>>, Return("None"), cat)
  ELSE IF InferIndexError(c.values, c.columns) THEN Res(<<q>>, Raise("IndexError"), cat)
  ELSE IF BackendRejects(ct, cat) THEN Res(<<q, ct>>, Raise(ClientError(c.backend)), cat)
  ELSE Res(<<q, ct>>, Return("None"), Apply(ct, cat))

\* SQLServerGenericCRUD.create_table_if_not_exists: likewise, returning whether
\* it created the table
SQLServerCreateTableIfNotExists(c, cat) ==
  LET g == SQLServerGetTableColumns(c.table, <<>>, cat, 0)
      ct == CreateTable(c.table, c.columns)
      s2 == Append(g.sent, ct)
  IN
  IF g.columns # <<>> THEN Res(g.sent, Return("False"), cat)
  ELSE IF InferIndexError(c.values, c.columns) THEN Res(g.sent, Raise("IndexError"), cat)
  ELSE IF BackendRejects(ct, cat) THEN Res(s2, Raise(ClientError(c.backend)), cat)
  ELSE Res(s2, Return("True"), Apply(ct, cat))

\* the caller fixes the arguments it will call with
SchemaCall ==
  /\ ct_call = BaseCall
  /\ \E b \in CrudBackends, t \in {<<"t">>, <<"b">>},
        columns \in {<<"id">>, <<"a">>, <<"id", "a">>, <<"a", "b">>} :
     \E values \in {<<>>, <<Row(Len(columns))>>} :
       ct_call' = [BaseCall EXCEPT !.backend = b, !.op = "create_table_if_not_exists",
                                   !.table = t, !.columns_given = TRUE,
                                   !.columns = columns, !.values = values]
  /\ UNCHANGED <<ct_catalog, ct_results>>
  /\ UNCHANGED exceptSchema

SchemaRunning(backend) ==
  /\ ct_call.op = "create_table_if_not_exists"
  /\ ct_call.backend = backend
  /\ Len(ct_results) < MaxSchemaCalls

SchemaDone(r) ==
  /\ ct_results' = Append(ct_results, [outcome |-> r.outcome, sent |-> r.sent,
                                        catalog |-> r.catalog])
  /\ ct_catalog' = r.catalog
  /\ UNCHANGED ct_call
  /\ UNCHANGED exceptSchema

PostgresqlCreateTableIfNotExists ==
  /\ SchemaRunning("postgresql")
  /\ SchemaDone(PgCreateTableIfNotExists(ct_call, ct_call.columns, <<>>, ct_catalog, 0))
OracleCreateTableIfNotExistsCall ==
  /\ SchemaRunning("oracle")
  /\ SchemaDone(OracleCreateTableIfNotExists(ct_call, ct_call.columns, <<>>, ct_catalog, 0))
MySQLCreateTableIfNotExistsCall ==
  /\ SchemaRunning("mysql")
  /\ SchemaDone(MySQLCreateTableIfNotExists(ct_call, ct_catalog))
SQLServerCreateTableIfNotExistsCall ==
  /\ SchemaRunning("sqlserver")
  /\ SchemaDone(SQLServerCreateTableIfNotExists(ct_call, ct_catalog))

(***************************************************************************)
(* The module-level failed_query_queue of the SQL Server and PostgreSQL     *)
(* clients and SQLServerClient.process_failed_queries                       *)
(***************************************************************************)
\* failing statements logged in one behaviour
MaxFailedStatements == 3
\* most columns in the updates argument of OracleGenericCRUD.update
MaxUpdateColumns == 2
\* most parameters of its where clause
MaxWhereParams == 1
\* statements logged while process_failed_queries is run by several threads
MaxDrainEntries == 2

\* sqlserver_client.py / postgresql_client.py: MAX_RETRIES = 3
MAX_RETRIES == 3

QueueOwners == {"sqlserver", "postgresql"}

ReplayIdle ==
  /\ fq_pc = "idle"
  /\ fq_queue = [o \in QueueOwners |-> <<>>]
  /\ fq_logged = 0
  /\ fq_replayed = FALSE
  /\ fq_runs = [q \in {} |-> 0]
  /\ fq_last = [entry |-> [query |-> 0, retry_count |-> 0], executed |-> FALSE,
                failed |-> FALSE]

\* log_failed_query(query, params): failed_query_queue.put of a new entry with
\* retry_count 0; queue.Queue() has no maxsize, so put never blocks or drops
LogFailedQuery ==
  /\ fq_pc = "idle"
  /\ fq_logged < MaxFailedStatements
  /\ \E o \in QueueOwners :
       fq_queue' = [fq_queue EXCEPT
                      ![o] = Append(@, [query |-> fq_logged + 1, retry_count |-> 0])]
  /\ fq_logged' = fq_logged + 1
  /\ fq_runs' = (fq_logged + 1) :> 0 @@ fq_runs
  /\ UNCHANGED <<fq_pc, fq_replayed, fq_last>>
  /\ UNCHANGED exceptReplay

\* process_failed_queries: `if retry_count >= MAX_RETRIES: continue`
CapReachedAbove(retry_count) == retry_count > MAX_RETRIES
CapReached(retry_count) == retry_count >= MAX_RETRIES

\* process_failed_queries: `retry_count += 1` in the pyodbc.Error handler
NextRetryCountByTwo(retry_count) == retry_count + 2
NextRetryCount(retry_count) == retry_count + 1

\* SQLServerClient.process_failed_queries is entered
ProcessFailedQueries ==
  /\ fq_pc = "idle"
  /\ fq_pc' = "replaying"
  /\ fq_replayed' = TRUE
  /\ UNCHANGED <<fq_queue, fq_logged, fq_runs, fq_last>>
  /\ UNCHANGED exceptReplay

\* one turn of its loop: get() the oldest entry; skip it at the cap, else
\* execute it again, and on pyodbc.Error put it back with its count raised
ReplayEntry ==
  /\ fq_pc = "replaying"
  /\ fq_queue["sqlserver"] # <<>>
  /\ LET failed_query == Head(fq_queue["sqlserver"])
         rest == Tail(fq_queue["sqlserver"])
     IN
     IF CapReached(failed_query.retry_count)
       THEN /\ fq_queue' = [fq_queue EXCEPT !["sqlserver"] = rest]
            /\ fq_last' = [entry |-> failed_query, executed |-> FALSE, failed |-> FALSE]
            /\ UNCHANGED fq_runs
       ELSE \E fails \in BOOLEAN :
            /\ fq_runs' = [fq_runs EXCEPT ![failed_query.query] = @ + 1]
            /\ fq_last' = [entry |-> failed_query, executed |-> TRUE, failed |-> fails]
            /\ fq_queue' = [fq_queue EXCEPT !["sqlserver"] =
                 IF fails
                   THEN Append(rest, [failed_query EXCEPT
                          !.retry_count = NextRetryCount(failed_query.retry_count)])
                   ELSE rest]
  /\ UNCHANGED <<fq_pc, fq_logged, fq_replayed>>
  /\ UNCHANGED exceptReplay

\* `while not failed_query_queue.empty()` ends the loop and the call returns
ReplayReturn ==
  /\ fq_pc = "replaying"
  /\ fq_queue["sqlserver"] = <<>>
  /\ fq_pc' = "idle"
  /\ UNCHANGED <<fq_queue, fq_logged, fq_replayed, fq_runs, fq_last>>
  /\ UNCHANGED exceptReplay

(***************************************************************************)
(* DatabaseFactory.get_database                                             *)
(***************************************************************************)
\* identifiers a caller may pass: the six supported ones and others
Identifiers == Clients \cup {"MySQL", "redis", ""}

FactoryIdle == gd_call = [db_type |-> "none", result |-> "none"]

\* the if/elif chain of get_database: the class it instantiates for db_type,
\* or the ValueError of its else branch
FactoryClassDefaulting(db_type) ==
  CASE db_type = "mysql" -> "mysql"
    [] db_type = "postgresql" -> "postgresql"
    [] db_type = "mongodb" -> "mongodb"
    [] db_type = "sqlserver" -> "sqlserver"
    [] db_type = "oracle" -> "oracle"
    [] OTHER -> "sqlite"
FactoryClass(db_type) ==
  CASE db_type = "mysql" -> "mysql"
    [] db_type = "postgresql" -> "postgresql"
    [] db_type = "mongodb" -> "mongodb"
    [] db_type = "sqlite" -> "sqlite"
    [] db_type = "sqlserver" -> "sqlserver"
    [] db_type = "oracle" -> "oracle"
    [] OTHER -> "ValueError"

\* DatabaseFactory.get_database(db_type, config): runs the chosen class's
\* __init__, which stores the config and sets its handles to None
GetDatabase ==
  /\ lc_client = "none"
  /\ gd_call.db_type = "none"
  /\ \E db_type \in Identifiers :
       LET cls == FactoryClass(db_type) IN
       /\ gd_call' = [db_type |-> db_type, result |-> cls]
       /\ IF cls \in Clients
            THEN /\ lc_client' = cls
                 /\ \E cfg \in ConfigsFor(cls) : lc_config' = cfg
                 /\ lc_handle' = 0
                 /\ lc_objects' = <<>>
                 /\ lc_manager' = NoManager
                 /\ lc_ops' = <<>>
                 /\ lc_trace' = <<>>
            ELSE UNCHANGED lifeVars
  /\ UNCHANGED exceptLifeFactory

(***************************************************************************)
(* The timeout argument of execute_query (PostgreSQL and Oracle clients)    *)
(***************************************************************************)
\* PostgreSQLClient.connect: options '-c statement_timeout=30000'
PgDefaultStatementTimeout == 30000

\* the timeout argument in seconds; 0 stands for None (both are falsy)
TimeoutArgs == {0, 5, 60}

\* the session of the thread's cached PostgreSQL connection: its
\* statement_timeout, and the value a SET in the open transaction gave it
\* (-1: none); Oracle: call_timeout of each pooled connection, 0 for none
TimeoutIdle ==
  /\ tm_pg = [session |-> PgDefaultStatementTimeout, pending |-> -1]
  /\ tm_oracle = [c \in 1..MaxPoolSize |-> 0]
  /\ tm_last = [client |-> "none", timeout |-> 0, effective |-> 0]

\* PostgreSQLClient.execute_query(query, timeout=...): `if timeout:` SET
\* statement_timeout on the thread's connection, execute, commit after a
\* statement without result set; an error rolls back and returns the
\* connection to the pool; a success keeps connection and transaction
PostgreSQLExecuteQueryTimeout ==
  \E timeout \in TimeoutArgs, has_description \in BOOLEAN, fails \in BOOLEAN :
    LET pending == IF timeout # 0 THEN timeout * 1000 ELSE tm_pg.pending
        effective == IF pending # -1 THEN pending ELSE tm_pg.session
    IN
    /\ tm_pg' = CASE fails -> [tm_pg EXCEPT !.pending = -1]
                  [] ~fails /\ has_description -> [tm_pg EXCEPT !.pending = pending]
                  [] OTHER -> [session |-> effective, pending |-> -1]
    /\ tm_last' = [client |-> "postgresql", timeout |-> timeout, effective |-> effective]
    /\ UNCHANGED tm_oracle
    /\ UNCHANGED exceptTimeout

\* OracleClient.execute_query(query, timeout=...): acquire a pooled connection,
\* `if timeout:` connection.call_timeout = timeout * 1000, execute, release
OracleExecuteQueryTimeout ==
  \E connection \in 1..MaxPoolSize, timeout \in TimeoutArgs :
    LET call_timeout == IF timeout # 0 THEN timeout * 1000 ELSE tm_oracle[connection] IN
    /\ tm_oracle' = [tm_oracle EXCEPT ![connection] = call_timeout]
    /\ tm_last' = [client |-> "oracle", timeout |-> timeout, effective |-> call_timeout]
    /\ UNCHANGED tm_pg
    /\ UNCHANGED exceptTimeout

(***************************************************************************)
(* execute_raw_query of the PostgreSQL and MySQL CRUD engines               *)
(***************************************************************************)
\* the leading keyword of the query as the caller wrote it
Keywords == {"SELECT", "select", "SeLeCt", "WITH", "INSERT", "delete"}

\* str.lower()
Lower(word) ==
  CASE word \in {"SELECT", "select", "SeLeCt"} -> "select"
    [] word = "WITH" -> "with"
    [] word = "INSERT" -> "insert"
    [] OTHER -> word

\* query.strip().lower().startswith('select'): strip() removes the leading
\* whitespace, so only the keyword decides
IsSelect(query) == Lower(query.keyword) = "select"

\* the value of the one column of a row the backend holds
ValueKinds == {"int", "date", "datetime"}

\* _format_dates on a one-column record: strftime for date and datetime
FormatDates(value) ==
  CASE value = "date" -> "%Y-%m-%d"
    [] value = "datetime" -> "%Y-%m-%d %H:%M:%S"
    [] OTHER -> value

FormatAll(rows) == [i \in DOMAIN rows |-> FormatDates(rows[i])]

RawIdle ==
  /\ rq_call = [backend |-> "none"]
  /\ rq_result = [kind |-> "none", value |-> <<>>]
  /\ rq_done = FALSE

\* a caller hands a query to execute_raw_query; rows: what the statement
\* matches in the backend
RawCall ==
  /\ rq_call.backend = "none"
  /\ \E b \in {"postgresql", "mysql"}, space \in BOOLEAN, k \in Keywords,
        n \in 0..MaxRows, fetch_as_dict \in BOOLEAN :
     \E rows \in [1..n -> ValueKinds] :
       /\ b = "mysql" => fetch_as_dict
       /\ rq_call' = [backend |-> b, query |-> [leading_space |-> space, keyword |-> k],
                      fetch_as_dict |-> fetch_as_dict, rows |-> rows]
  /\ UNCHANGED <<rq_result, rq_done>>
  /\ UNCHANGED exceptRaw

\* PostgresqlGenericCRUD.execute_raw_query: the client returns fetched rows
\* when cursor.description is set (as dicts under fetch_as_dict) and
\* cursor.rowcount otherwise; the engine formats the dates of a select's
\* dict rows and returns everything else as the client returned it
PostgresqlExecuteRawQuery ==
  /\ rq_call.backend = "postgresql" /\ ~rq_done
  /\ LET description == Lower(rq_call.query.keyword) \in {"select", "with"}
         result == IF description
                     THEN [kind |-> IF rq_call.fetch_as_dict THEN "records" ELSE "tuples",
                           value |-> rq_call.rows]
                     ELSE [kind |-> "count", value |-> Len(rq_call.rows)]
     IN
     rq_result' = IF IsSelect(rq_call.query) /\ rq_call.fetch_as_dict
                    THEN [kind |-> "records", value |-> FormatAll(result.value)]
                    ELSE result
  /\ rq_done' = TRUE
  /\ UNCHANGED rq_call
  /\ UNCHANGED exceptRaw

\* MySQLGenericCRUD.execute_raw_query: a select is passed on with
\* fetch_as_dict=True, a keyword MySQLClient.execute_query(query, params) does
\* not take; any other statement is executed and None returned
MySQLExecuteRawQuery ==
  /\ rq_call.backend = "mysql" /\ ~rq_done
  /\ rq_result' = IF IsSelect(rq_call.query)
                    THEN [kind |-> "raised", value |-> "TypeError"]
                    ELSE [kind |-> "None", value |-> <<>>]
  /\ rq_done' = TRUE
  /\ UNCHANGED rq_call
  /\ UNCHANGED exceptRaw

(***************************************************************************)
(* _infer_column_types of the PostgreSQL and SQL Server CRUD engines        *)
(***************************************************************************)
\* sample values by their Python type; big_int is an int beyond 2147483647
SampleKinds == {"None", "int", "big_int", "float", "date", "datetime", "bool", "str"}

\* type(value)
PyType(value) == IF value = "big_int" THEN "int" ELSE value

\* isinstance(value, cls): bool is a subclass of int, datetime one of date
PyIsInstance(value, cls) ==
  \/ PyType(value) = cls
  \/ value = "bool" /\ cls = "int"
  \/ value = "datetime" /\ cls = "date"

\* the sample rows: one column of any kinds, or the three columns
\* customer_id, amount, created
SampleRows(columns) ==
  IF Len(columns) = 1
    THEN {<<v>> : v \in SampleKinds}
    ELSE {<<"int", "float", "date">>, <<"None", "None", "None">>,
          <<"bool", "datetime", "big_int">>}

SampleColumns == {<<"a">>, <<"customer_id", "amount", "created">>}

InferIdle ==
  /\ it_call = [backend |-> "none"]
  /\ it_types = <<>>

\* PostgresqlGenericCRUD._infer_column_types: type_mapping.get(type(first
\* non-null sample)), str for mixed types, TEXT without a sample; the primary
\* key becomes SERIAL PRIMARY KEY or <type> PRIMARY KEY
PgInferColumnTypes ==
  /\ it_call.backend = "none"
  /\ \E columns \in SampleColumns, n \in 0..MaxRows, primary_key \in {"None", "a"} :
     \E values \in [1..n -> SampleRows(columns)] :
       LET TypeMapping(python_type) ==
             CASE python_type = "int" -> "INTEGER"
               [] python_type = "float" -> "DOUBLE PRECISION"
               [] python_type = "str" -> "TEXT"
               [] python_type = "date" -> "DATE"
               [] python_type = "datetime" -> "TIMESTAMP"
               [] python_type = "bool" -> "BOOLEAN"
               [] OTHER -> "TEXT"
           Infer(idx) ==
             LET sample_values ==
                   SelectSeq([r \in 1..n |-> values[r][idx]], LAMBDA v : v # "None")
                 python_type ==
                   IF \E k \in 2..Len(sample_values) :
                        PyType(sample_values[k]) # PyType(sample_values[1])
                     THEN "str" ELSE PyType(sample_values[1])
             IN
             IF sample_values = <<>> THEN [type |-> "TEXT", primary_key |-> FALSE]
             ELSE IF columns[idx] # primary_key
               THEN [type |-> TypeMapping(python_type), primary_key |-> FALSE]
             ELSE IF python_type = "int" THEN [type |-> "SERIAL", primary_key |-> TRUE]
             ELSE [type |-> TypeMapping(python_type), primary_key |-> TRUE]
       IN
       /\ it_call' = [backend |-> "postgresql", columns |-> columns, values |-> values,
                      primary_key |-> primary_key]
       /\ it_types' = [idx \in DOMAIN columns |-> Infer(idx)]
  /\ UNCHANGED exceptInfer

\* SQLServerGenericCRUD._infer_column_types: the isinstance chain applied to
\* the first non-null sample of a column
SQLServerTypeOfIntFirst(value) ==
  CASE PyIsInstance(value, "int") -> IF value = "big_int" THEN "BIGINT" ELSE "INT"
    [] PyIsInstance(value, "bool") -> "BIT"
    [] PyIsInstance(value, "float") -> "FLOAT"
    [] PyIsInstance(value, "datetime") -> "DATETIME2"
    [] PyIsInstance(value, "date") -> "DATE"
    [] PyIsInstance(value, "str") -> "VARCHAR(n)"
    [] OTHER -> "VARCHAR(MAX)"
SQLServerTypeOf(value) ==
  IF PyIsInstance(value, "bool") THEN "BIT"
  ELSE IF PyIsInstance(value, "int")
    THEN (IF value = "big_int" THEN "BIGINT" ELSE "INT")
  ELSE IF PyIsInstance(value, "float") THEN "FLOAT"
  ELSE IF PyIsInstance(value, "datetime") THEN "DATETIME2"
  ELSE IF PyIsInstance(value, "date") THEN "DATE"
  ELSE IF PyIsInstance(value, "str") THEN "VARCHAR(n)"
  ELSE "VARCHAR(MAX)"

\* ... VARCHAR(MAX) for every column without values or without a non-null one
SQLServerInferColumnTypes ==
  /\ it_call.backend = "none"
  /\ \E columns \in SampleColumns, n \in 0..MaxRows :
     \E values \in [1..n -> SampleRows(columns)] :
       LET Infer(col_idx) ==
             LET samples ==
                   SelectSeq([r \in 1..n |-> values[r][col_idx]], LAMBDA v : v # "None")
             IN
             [type |-> IF samples = <<>> THEN "VARCHAR(MAX)" ELSE SQLServerTypeOf(samples[1]),
              primary_key |-> FALSE]
       IN
       /\ it_call' = [backend |-> "sqlserver", columns |-> columns, values |-> values,
                      primary_key |-> "None"]
       /\ it_types' = [col_idx \in DOMAIN columns |-> Infer(col_idx)]
  /\ UNCHANGED exceptInfer

(***************************************************************************)
(* PostgreSQLClient: the connection each thread caches in self._local       *)
(***************************************************************************)
LocalIdle ==
  /\ tl_open = FALSE
  /\ tl_max = 0
  /\ tl_used = {}
  /\ tl_local = [t \in Threads |-> 0]
  /\ tl_stale = {}
  /\ tl_pending = {}
  /\ tl_ran = {}
  /\ tl_last = [thread |-> 0, op |-> "none", result |-> "none", connection |-> 0,
                stale |-> FALSE]

\* connect(): self.connection_pool = ThreadedConnectionPool(min, max, ...); the
\* test connection is taken and put back
PgConnect ==
  /\ ~tl_open
  /\ \E max_pool_size \in 1..MaxPoolSize : tl_max' = max_pool_size
  /\ tl_open' = TRUE
  /\ tl_used' = {}
  /\ tl_pending' = {}
  /\ tl_last' = [thread |-> 0, op |-> "connect", result |-> "returned", connection |-> 0,
                 stale |-> FALSE]
  /\ UNCHANGED <<tl_local, tl_stale, tl_ran>>
  /\ UNCHANGED exceptLocal

\* how the body under `with self.get_connection()` ends: its statement went
\* through and was committed, went through and left the transaction open,
\* failed on a live connection, or failed because the connection is lost
BodyEnds == {"committed", "open", "error", "broken"}

\* one operation of thread t through get_connection: getconn() under the lock
\* unless the thread has a handle; on an exception rollback() and putconn()
\* inside `try ... except: pass`, and the handle set to None in its finally
PgOperation(t, op, ends) ==
  LET held == tl_local[t] # 0
      free == (1..tl_max) \ tl_used
      Last(res, c, st) == [thread |-> t, op |-> op, result |-> res, connection |-> c,
                           stale |-> st]
  IN
  IF ~held /\ ~tl_open
    THEN /\ tl_last' = Last("AttributeError", 0, FALSE)
         /\ UNCHANGED <<tl_open, tl_max, tl_used, tl_local, tl_stale, tl_pending, tl_ran>>
  ELSE IF ~held /\ free = {}
    THEN /\ tl_last' = Last("PoolError", 0, FALSE)
         /\ UNCHANGED <<tl_open, tl_max, tl_used, tl_local, tl_stale, tl_pending, tl_ran>>
  ELSE IF t \in tl_stale
    THEN \* the handle is a connection closeall() has closed: the statement and
         \* the handler's rollback() both raise, putconn() is not reached
         /\ tl_last' = Last("InterfaceError", tl_local[t], TRUE)
         /\ tl_local' = [tl_local EXCEPT ![t] = 0]
         /\ tl_stale' = tl_stale \ {t}
         /\ tl_ran' = tl_ran \ {t}
         /\ UNCHANGED <<tl_open, tl_max, tl_used, tl_pending>>
  ELSE
    LET connection == IF held THEN tl_local[t] ELSE Min(free)
        used == tl_used \cup {connection}
    IN
    /\ tl_last' = Last(CASE ends \in {"committed", "open"} -> "returned"
                         [] op = "execute_query" -> "DatabaseConnectionError"
                         [] OTHER -> "InterfaceError",
                       connection, FALSE)
    /\ tl_local' = [tl_local EXCEPT ![t] =
                      IF ends \in {"committed", "open"} THEN connection ELSE 0]
    /\ tl_used' = IF ends = "error" THEN used \ {connection} ELSE used
    /\ tl_pending' = IF ends = "open" THEN tl_pending \cup {connection}
                     ELSE tl_pending \ {connection}
    /\ tl_ran' = IF ends \in {"committed", "open"} THEN tl_ran \cup {t} ELSE tl_ran \ {t}
    /\ UNCHANGED <<tl_open, tl_max, tl_stale>>

\* execute_query: commit after a statement without result set, none after one
\* with (SELECT, INSERT ... RETURNING)
PgExecuteQuery(t) ==
  /\ \E ends \in BodyEnds : PgOperation(t, "execute_query", ends)
  /\ UNCHANGED exceptLocal

\* execute_query_with_savepoint: SAVEPOINT, the statement, commit; on an error
\* the handler sends ROLLBACK TO SAVEPOINT through the cursor its with block
\* has closed by then, which raises InterfaceError ahead of the handler's
\* connection.rollback(); get_connection answers with rollback() and putconn()
PgExecuteQueryWithSavepoint(t) ==
  /\ \E ends \in BodyEnds \ {"open"} :
       PgOperation(t, "execute_query_with_savepoint", ends)
  /\ UNCHANGED exceptLocal

\* disconnect() in thread t: putconn() of this thread's handle only, then
\* closeall() and self.connection_pool = None
PgDisconnect(t) ==
  /\ tl_open
  /\ tl_open' = FALSE
  /\ tl_used' = {}
  /\ tl_pending' = {}
  /\ tl_local' = [tl_local EXCEPT ![t] = 0]
  /\ tl_stale' = {u \in Threads \ {t} : tl_local[u] # 0}
  /\ tl_ran' = tl_ran \ {t}
  /\ tl_last' = [thread |-> t, op |-> "disconnect", result |-> "returned",
                 connection |-> tl_local[t], stale |-> FALSE]
  /\ UNCHANGED tl_max
  /\ UNCHANGED exceptLocal

(***************************************************************************)
(* OracleGenericCRUD.update: the SET clause and the bound values.          *)
(* updates is a dict, modelled as the sequence of its (column, value)      *)
(* items in insertion order; the SET clause is the sequence of its         *)
(* "col = :p" terms, each a record of the column and the number p.         *)
(***************************************************************************)
UpdateColumns == {"a", "b", "c"}
UpdateValues == {10, 20}
WhereParams == {7, 8}

\* dicts of up to MaxUpdateColumns distinct columns
UpdateDicts ==
  {u \in UNION {[1..n -> UpdateColumns \X UpdateValues] : n \in 0..MaxUpdateColumns} :
     \A i, j \in 1..Len(u) : i # j => u[i][1] # u[j][1]}

WhereTuples == UNION {[1..n -> WhereParams] : n \in 0..MaxWhereParams}

UpdateIdle ==
  up_last = [set_clause |-> <<>>, values |-> <<>>, updates |-> <<>>, params |-> <<>>,
             result |-> "none"]

\* enumerate(updates.keys(), 1) numbers the columns from 1
Enumerate(keys, start) == [k \in 1..Len(keys) |-> [i |-> (k - 1) + start, col |-> keys[k]]]

\* f"{col} = :{i+1}"
SetTerm(e) == [col |-> e.col, placeholder |-> e.i + 1]

\* ", ".join([f"{col} = :{i+1}" for i, col in enumerate(updates.keys(), 1)])
SetClause(updates) ==
  LET keys == [k \in 1..Len(updates) |-> updates[k][1]]
      en == Enumerate(keys, 1)
  IN [k \in 1..Len(en) |-> SetTerm(en[k])]

\* tuple(updates.values()) + params
UpdateBindValues(updates, params) == [k \in 1..Len(updates) |-> updates[k][2]] \o params

\* update never raises: it returns True, or False when execute_query raised, so
\* its retry wrapper runs the body once
OracleUpdate ==
  /\ \E updates \in UpdateDicts, params \in WhereTuples, executes \in BOOLEAN :
       up_last' = [set_clause |-> SetClause(updates),
                   values |-> UpdateBindValues(updates, params),
                   updates |-> updates, params |-> params,
                   result |-> IF executes THEN "True" ELSE "False"]
  /\ UNCHANGED exceptUpdate

(***************************************************************************)
(* process_failed_queries run by several threads at once.  The queue is    *)
(* the module-level queue.Queue of sqlserver_client.py: empty() and get()  *)
(* are each atomic, get() with no timeout waits until an entry is there.   *)
(***************************************************************************)
NoEntry == [query |-> 0, retry_count |-> 0]

DrainIdle ==
  /\ dq_pc = [t \in Threads |-> "idle"]
  /\ dq_queue = <<>>
  /\ dq_entry = [t \in Threads |-> NoEntry]
  /\ dq_logged = 0

\* log_failed_query: put of a new entry with retry_count 0
DrainLog ==
  /\ dq_logged < MaxDrainEntries
  /\ dq_logged' = dq_logged + 1
  /\ dq_queue' = Append(dq_queue, [query |-> dq_logged + 1, retry_count |-> 0])
  /\ UNCHANGED <<dq_pc, dq_entry>>
  /\ UNCHANGED exceptDrain

\* a thread calls process_failed_queries
DrainEnter(t) ==
  /\ dq_pc[t] = "idle"
  /\ dq_pc' = [dq_pc EXCEPT ![t] = "check"]
  /\ UNCHANGED <<dq_queue, dq_entry, dq_logged>>
  /\ UNCHANGED exceptDrain

\* `while not failed_query_queue.empty()`: go on to get(), or return
DrainCheck(t) ==
  /\ dq_pc[t] = "check"
  /\ dq_pc' = [dq_pc EXCEPT ![t] = IF dq_queue = <<>> THEN "idle" ELSE "get"]
  /\ UNCHANGED <<dq_queue, dq_entry, dq_logged>>
  /\ UNCHANGED exceptDrain

\* `failed_query = failed_query_queue.get()`: takes the oldest entry; with the
\* queue empty the call waits
DrainGet(t) ==
  /\ dq_pc[t] = "get"
  /\ dq_queue # <<>>
  /\ dq_entry' = [dq_entry EXCEPT ![t] = Head(dq_queue)]
  /\ dq_queue' = Tail(dq_queue)
  /\ dq_pc' = [dq_pc EXCEPT ![t] = "handle"]
  /\ UNCHANGED dq_logged
  /\ UNCHANGED exceptDrain

\* the body of the loop on the entry taken: skipped at the cap, else executed
\* again and, on pyodbc.Error, put back with its count raised
DrainHandle(t) ==
  /\ dq_pc[t] = "handle"
  /\ LET failed_query == dq_entry[t] IN
     IF CapReached(failed_query.retry_count)
       THEN UNCHANGED dq_queue
       ELSE \E fails \in BOOLEAN :
              dq_queue' = IF fails
                            THEN Append(dq_queue, [failed_query EXCEPT
                                   !.retry_count = NextRetryCount(failed_query.retry_count)])
                            ELSE dq_queue
  /\ dq_entry' = [dq_entry EXCEPT ![t] = NoEntry]
  /\ dq_pc' = [dq_pc EXCEPT ![t] = "check"]
  /\ UNCHANGED dq_logged
  /\ UNCHANGED exceptDrain

(***************************************************************************)
(* create_table_if_not_exists of the PostgreSQL and Oracle engines called  *)
(* by several threads at once: the existence query and the CREATE TABLE    *)
(* are two client calls, and other callers run between them.               *)
(***************************************************************************)
RaceBackends == {"postgresql", "oracle"}
RaceTables == {<<"t">>, <<"b">>}

NoRaceCall == [backend |-> "none", table |-> <<>>]

RaceIdle ==
  /\ cr_pc = [t \in Threads |-> "idle"]
  /\ cr_call = [t \in Threads |-> NoRaceCall]
  /\ cr_issued = [t \in Threads |-> FALSE]
  /\ cr_catalog = [b \in RaceBackends |-> [k \in {} |-> <<>>]]

\* a thread calls create_table_if_not_exists(table, ["a"], values)
RaceCall(t) ==
  /\ cr_pc[t] = "idle"
  /\ \E b \in RaceBackends, table \in RaceTables :
       cr_call' = [cr_call EXCEPT ![t] = [backend |-> b, table |-> table]]
  /\ cr_pc' = [cr_pc EXCEPT ![t] = "check"]
  /\ UNCHANGED <<cr_issued, cr_catalog>>
  /\ UNCHANGED exceptRace

\* the existence query and `if result[0][...] > 0: return`
RaceExistsQuery(t) ==
  /\ cr_pc[t] = "check"
  /\ LET c == cr_call[t] IN
     cr_pc' = [cr_pc EXCEPT ![t] =
                 IF TableKey(c.table) \in DOMAIN cr_catalog[c.backend]
                   THEN "returned" ELSE "create"]
  /\ UNCHANGED <<cr_call, cr_issued, cr_catalog>>
  /\ UNCHANGED exceptRace

\* db_client.execute_query(create_query); the handler logs and re-raises
RaceCreateTable(t) ==
  /\ cr_pc[t] = "create"
  /\ LET c == cr_call[t]
         ct == CreateTable(c.table, <<"a">>)
     IN
     IF BackendRejects(ct, cr_catalog[c.backend])
       THEN /\ cr_pc' = [cr_pc EXCEPT ![t] = "raised"]
            /\ UNCHANGED cr_catalog
       ELSE /\ cr_pc' = [cr_pc EXCEPT ![t] = "returned"]
            /\ cr_catalog' = [cr_catalog EXCEPT ![c.backend] = Apply(ct, @)]
  /\ cr_issued' = [cr_issued EXCEPT ![t] = TRUE]
  /\ UNCHANGED cr_call
  /\ UNCHANGED exceptRace

\* the caller has its result
RaceTakeResult(t) ==
  /\ cr_pc[t] \in {"returned", "raised"}
  /\ cr_pc' = [cr_pc EXCEPT ![t] = "idle"]
  /\ cr_call' = [cr_call EXCEPT ![t] = NoRaceCall]
  /\ cr_issued' = [cr_issued EXCEPT ![t] = FALSE]
  /\ UNCHANGED cr_catalog
  /\ UNCHANGED exceptRace

(***************************************************************************)
(* ETLScheduler: self.config['jobs'], the job registry of the `schedule`   *)
(* module, and the scheduler thread                                        *)
(***************************************************************************)
JobNames == {"j1", "j2"}

\* self.config['jobs'][name]: absent, or its enabled flag and whether its
\* schedule string is one _schedule_jobs understands
NoJob == [present |-> FALSE, enabled |-> FALSE, schedulable |-> FALSE]

NotStarted == [job |-> "none", present |-> FALSE, enabled |-> FALSE]

SchedIdle ==
  /\ sc_config = [name \in JobNames |-> NoJob]
  /\ sc_is_running = FALSE
  /\ sc_jobs = {}
  /\ sc_started = NotStarted

\* add_job(name, schedule_time, script_path, enabled): FileNotFoundError for a
\* missing script, else the entry is written and the configuration saved
AddJob(name) ==
  /\ \E script_exists \in BOOLEAN, enabled \in BOOLEAN, schedulable \in BOOLEAN :
       sc_config' = IF script_exists
                      THEN [sc_config EXCEPT ![name] =
                              [present |-> TRUE, enabled |-> enabled,
                               schedulable |-> schedulable]]
                      ELSE sc_config
  /\ UNCHANGED <<sc_is_running, sc_jobs, sc_started>>
  /\ UNCHANGED exceptSched

\* remove_job(name): the entry is deleted from the configuration
RemoveJob(name) ==
  /\ sc_config' = IF sc_config[name].present
                    THEN [sc_config EXCEPT ![name] = NoJob]
                    ELSE sc_config
  /\ UNCHANGED <<sc_is_running, sc_jobs, sc_started>>
  /\ UNCHANGED exceptSched

\* toggle_job(name): the entry's enabled flag is inverted
ToggleJob(name) ==
  /\ sc_config' = IF sc_config[name].present
                    THEN [sc_config EXCEPT ![name].enabled = ~@]
                    ELSE sc_config
  /\ UNCHANGED <<sc_is_running, sc_jobs, sc_started>>
  /\ UNCHANGED exceptSched

\* _schedule_jobs: schedule.clear(), then one registration per enabled entry
\* whose schedule string is understood
ScheduleJobs ==
  {name \in JobNames : /\ sc_config[name].present
                       /\ sc_config[name].enabled
                       /\ sc_config[name].schedulable}

\* start(): nothing when already running; else the jobs are registered and the
\* scheduler thread begins
SchedStart ==
  /\ IF sc_is_running
       THEN UNCHANGED <<sc_is_running, sc_jobs>>
       ELSE /\ sc_is_running' = TRUE
            /\ sc_jobs' = ScheduleJobs
  /\ UNCHANGED <<sc_config, sc_started>>
  /\ UNCHANGED exceptSched

\* stop(): the loop ends; the registrations stay until the next start()
SchedStop ==
  /\ sc_is_running' = FALSE
  /\ UNCHANGED <<sc_config, sc_jobs, sc_started>>
  /\ UNCHANGED exceptSched

\* _run_scheduler: schedule.run_pending() finds a registered job due and calls
\* _run_job(name, job_config), which starts the script
RunPending(name) ==
  /\ sc_is_running
  /\ name \in sc_jobs
  /\ sc_started' = [job |-> name, present |-> sc_config[name].present,
                    enabled |-> sc_config[name].enabled]
  /\ UNCHANGED <<sc_config, sc_is_running, sc_jobs>>
  /\ UNCHANGED exceptSched

(***************************************************************************)
(* Specifications                                                          *)
(***************************************************************************)
Init ==
  /\ CallIdle /\ TunnelIdle /\ PoolIdle /\ SharedIdle /\ ConnIdle /\ LifeIdle /\ TripIdle
  /\ SchemaIdle
  /\ ReplayIdle
  /\ FactoryIdle
  /\ TimeoutIdle
  /\ RawIdle
  /\ InferIdle
  /\ LocalIdle
  /\ UpdateIdle
  /\ DrainIdle
  /\ RaceIdle
  /\ SchedIdle

Next ==
  \/ Call
  \/ TakeResult
  \/ ScenarioOperation
  \/ OracleClientExecuteQuery
  \/ SQLServerClientExecuteQuery
  \/ PostgreSQLClientExecuteQuery
  \/ MySQLClientExecuteQuery
  \/ PostgresqlCreate
  \/ PostgresqlRead
  \/ PostgresqlDelete
  \/ OracleCreate
  \/ OracleDelete
  \/ SQLServerCreate
  \/ SQLServerTableExists
  \/ SQLServerDelete
  \/ MySQLCreate
  \/ MySQLDelete

\* a call that has been made runs on: body, sleep and retry are sequential code
Spec == Init /\ [][Next]_vars /\ WF_vars(Invoke)

TunnelInit == Init

TunnelNext ==
  \/ CreateSshTunnel
  \/ TunnelAttempt

\* a started attempt runs to its end: the loop body is straight-line code
TunnelSpec == TunnelInit /\ [][TunnelNext]_vars /\ WF_vars(TunnelAttempt)

PoolInit == Init

PoolNext ==
  \/ PoolConnect
  \/ \E t \in Threads : GetConnection(t)
  \/ \E t \in Threads : AcquireReturns(t)
  \/ \E t \in Threads : ReleaseConnection(t)
  \/ OtherAcquires
  \/ OtherReleases

PoolSpec == PoolInit /\ [][PoolNext]_vars

SharedNext ==
  \/ \E t \in Threads : SQLServerCursorExecute(t)
  \/ \E t \in Threads : SQLServerCommit(t)
  \/ \E t \in Threads : SQLServerRollback(t)

SharedSpec == Init /\ [][SharedNext]_vars

ConnNext ==
  \/ ClientCall
  \/ ClientTakeResult
  \/ ClientConnect
  \/ OracleExecuteQuery
  \/ OracleExecuteBatchQuery
  \/ OracleExecuteTransaction
  \/ MySQLExecuteQuery
  \/ MySQLExecuteBatchQuery
  \/ MySQLExecuteTransaction
  \/ PostgreSQLExecuteQuery
  \/ PostgreSQLExecuteBatchQuery
  \/ PostgreSQLExecuteTransaction
  \/ SQLServerExecuteQuery
  \/ SQLServerExecuteBatchQuery
  \/ SQLiteExecuteQuery
  \/ MongoDBExecuteQuery

ConnSpec == Init /\ [][ConnNext]_vars

LifeNext ==
  \/ Construct
  \/ GetDatabase
  \/ OracleClientConnect
  \/ OracleClientDisconnect
  \/ MySQLClientConnect
  \/ MySQLClientDisconnect
  \/ PostgreSQLClientConnect
  \/ PostgreSQLClientDisconnect
  \/ SQLServerClientConnect
  \/ SQLServerClientDisconnect
  \/ SQLiteClientConnect
  \/ SQLiteClientDisconnect
  \/ MongoDBClientConnect
  \/ MongoDBClientDisconnect

LifeSpec == Init /\ [][LifeNext]_vars

TripNext ==
  \/ RoundTripCreate
  \/ RoundTripRead
  \/ RoundTripReset

TripSpec == Init /\ [][TripNext]_vars

SchemaNext ==
  \/ SchemaCall
  \/ PostgresqlCreateTableIfNotExists
  \/ OracleCreateTableIfNotExistsCall
  \/ MySQLCreateTableIfNotExistsCall
  \/ SQLServerCreateTableIfNotExistsCall

SchemaSpec == Init /\ [][SchemaNext]_vars

ReplayNext ==
  \/ LogFailedQuery
  \/ ProcessFailedQueries
  \/ ReplayEntry
  \/ ReplayReturn

\* the loop of process_failed_queries runs on once entered
ReplaySpec ==
  Init /\ [][ReplayNext]_vars /\ WF_vars(ReplayEntry) /\ WF_vars(ReplayReturn)

TimeoutNext ==
  \/ PostgreSQLExecuteQueryTimeout
  \/ OracleExecuteQueryTimeout

TimeoutSpec == Init /\ [][TimeoutNext]_vars

RawNext ==
  \/ RawCall
  \/ PostgresqlExecuteRawQuery
  \/ MySQLExecuteRawQuery

RawSpec == Init /\ [][RawNext]_vars

InferNext ==
  \/ PgInferColumnTypes
  \/ SQLServerInferColumnTypes

InferSpec == Init /\ [][InferNext]_vars

LocalNext ==
  \/ PgConnect
  \/ \E t \in Threads : PgExecuteQuery(t)
  \/ \E t \in Threads : PgExecuteQueryWithSavepoint(t)
  \/ \E t \in Threads : PgDisconnect(t)

LocalSpec == Init /\ [][LocalNext]_vars


UpdateNext == OracleUpdate

UpdateSpec == Init /\ [][UpdateNext]_vars


DrainNext ==
  \/ DrainLog
  \/ \E t \in Threads : DrainEnter(t)
  \/ \E t \in Threads : DrainCheck(t)
  \/ \E t \in Threads : DrainGet(t)
  \/ \E t \in Threads : DrainHandle(t)

\* every thread inside process_failed_queries keeps running
DrainSpec ==
  Init /\ [][DrainNext]_vars
  /\ \A t \in Threads : WF_vars(DrainCheck(t)) /\ WF_vars(DrainGet(t)) /\ WF_vars(DrainHandle(t))


RaceNext ==
  \/ \E t \in Threads : RaceCall(t)
  \/ \E t \in Threads : RaceExistsQuery(t)
  \/ \E t \in Threads : RaceCreateTable(t)
  \/ \E t \in Threads : RaceTakeResult(t)

RaceSpec == Init /\ [][RaceNext]_vars


SchedNext ==
  \/ \E name \in JobNames : AddJob(name)
  \/ \E name \in JobNames : RemoveJob(name)
  \/ \E name \in JobNames : ToggleJob(name)
  \/ SchedStart
  \/ SchedStop
  \/ \E name \in JobNames : RunPending(name)

SchedSpec == Init /\ [][SchedNext]_vars

(***************************************************************************)
(* Claims                                                                  *)
(***************************************************************************)

\* C1: in every backend's CRUD engine, delete with safe_delete set and an empty
\* where clause raises a validation error and hands no statement to the client.
C1_SafeDeleteRefuses ==
  (pc = "done" /\ call.layer = "crud" /\ call.op = "delete"
     /\ call.safe_delete /\ call.where = "")
  => (outcome.kind = "raised" /\ outcome.exc = "ValueError" /\ sent = <<>>)

\* C2: create with a table name that does not match ^[A-Za-z][A-Za-z0-9_]*$
\* hands no statement to the client (no catalog query, no CREATE TABLE, no
\* INSERT), columns given or not, and ends in a validation error.
C2_InvalidNameNoStatement ==
  (call.layer = "crud" /\ call.op = "create" /\ ~PgValidateTableName(call.table))
  => /\ sent = <<>>
     /\ pc = "done" => (outcome.kind = "raised" /\ outcome.exc = "ValueError")

\* C3: create with a value tuple whose length differs from the number of
\* columns ends in a validation error, and neither a CREATE TABLE nor an INSERT
\* has been handed to the client: the catalog is as it was.
C3_LengthMismatchUntouched ==
  (call.layer = "crud" /\ call.op = "create" /\ call.columns_given
     /\ LengthMismatch(call.values, call.columns))
  => /\ \A i \in DOMAIN sent : sent[i].kind \notin {"create_table", "insert"}
     /\ pc = "done" => (outcome.kind = "raised" /\ outcome.exc = "ValueError")

\* C4: a wrapped operation that fails with a retryable error on its first k
\* runs (k <= max_retries) and then succeeds has run k+1 times, and the sleep
\* before retry i was delay * backoff^(i-1); with max_retries=5, delay=1,
\* backoff=2 and k=2 that is 3 runs and 1 + 2 = 3 time units of sleep.
C4_RetryThenSucceed ==
  LET cfg == RetryPolicy(call)
      k == Len(raised)
  IN
  /\ (pc = "done" /\ outcome.kind = "returned" /\ k <= cfg.max_retries
         /\ \A i \in 1..k : Retryable(raised[i], cfg))
      => /\ invocations = k + 1
         /\ outcome.attempt = k + 1
         /\ Len(slept) = k
         /\ \A i \in 1..k :
              slept[i] = <<cfg.delay * Pow(cfg.backoff[1], i - 1), Pow(cfg.backoff[2], i - 1)>>
  /\ (pc = "done" /\ call.layer = "executor" /\ call.fault = "TransientError"
         /\ call.failures <= cfg.max_retries)
      => /\ outcome.kind = "returned"
         /\ invocations = call.failures + 1
         /\ call.failures = 2 => (invocations = 3 /\ slept = <<<<1, 1>>, <<2, 1>>>>)
  \* SQLServerGenericCRUD.table_exists: max_retries=3, delay=2, backoff=1.5
  /\ (pc = "done" /\ call.layer = "crud" /\ call.op = "table_exists"
         /\ call.failures <= 3)
      => /\ outcome.kind = "returned"
         /\ invocations = call.failures + 1
         /\ slept = SubSeq(<<<<2, 1>>, <<6, 2>>, <<18, 4>>>>, 1, call.failures)
  \* OracleClient.execute_query: max_retries=5, delay=10, backoff=2, on an
  \* oracledb.Error of pool.acquire()
  /\ (pc = "done" /\ call.layer = "client" /\ call.backend = "oracle"
         /\ call.fault \in AcquireFaults /\ call.failures <= 5)
      => /\ outcome.kind = "returned"
         /\ invocations = call.failures + 1
         /\ slept = SubSeq(<<<<10, 1>>, <<20, 1>>, <<40, 1>>, <<80, 1>>, <<160, 1>>>>,
                           1, call.failures)

\* fails twice, then succeeds: three runs, sleeps of 1 and 2
C4_Witness ==
  /\ pc = "done"
  /\ call.layer = "executor"
  /\ raised = <<"TransientError", "TransientError">>
  /\ outcome.kind = "returned"
  /\ invocations = 3
  /\ SumSeq([i \in DOMAIN slept |-> slept[i][1]]) = 3

\* C5 (state part): a wrapped operation never runs more than max_retries + 1
\* times nor sleeps more than max_retries times; once max_retries + 1 runs have
\* failed the call is over and the caller has the error of the last run.
C5_Safety ==
  LET cfg == RetryPolicy(call) IN
  /\ invocations <= cfg.max_retries + 1
  /\ Len(slept) <= cfg.max_retries
  /\ Len(raised) = cfg.max_retries + 1
     => /\ pc = "done"
        /\ outcome.kind = "raised"
        /\ outcome.exc = raised[Len(raised)]
        /\ outcome.attempt = cfg.max_retries + 1
        /\ Len(slept) = cfg.max_retries
  \* PostgresqlGenericCRUD.read (max_retries=5, delay=5, backoff=2) and
  \* SQLServerClient.execute_query (max_retries=5, delay=10, backoff=2) when
  \* every run has failed
  /\ (pc = "done" /\ outcome.kind = "raised" /\ call.layer = "crud"
        /\ call.backend = "postgresql" /\ call.op = "read")
     => /\ invocations = 6
        /\ slept = <<<<5, 1>>, <<10, 1>>, <<20, 1>>, <<40, 1>>, <<80, 1>>>>
  /\ (pc = "done" /\ outcome.kind = "raised" /\ call.layer = "client"
        /\ call.backend = "sqlserver")
     => /\ executed = 6
        /\ slept = <<<<10, 1>>, <<20, 1>>, <<40, 1>>, <<80, 1>>, <<160, 1>>>>

\* C5: when every run of a retry-wrapped operation fails with a retryable
\* error the wrapper stops after max_retries retries and re-raises the last
\* error; the call always terminates, with at most max_retries + 1 runs.
C5_RetryTerminates == []C5_Safety /\ ((pc = "running") ~> (pc = "done"))

\* six failed runs of a read under max_retries=5: five sleeps, then the error
C5_Witness ==
  /\ pc = "done"
  /\ call.layer = "crud" /\ call.backend = "postgresql" /\ call.op = "read"
  /\ Len(raised) = CrudRetry.max_retries + 1
  /\ Len(slept) = CrudRetry.max_retries
  /\ outcome.kind = "raised"
  /\ outcome.exc = "DatabaseConnectionError"

\* C6: a syntax error, constraint violation or type mismatch met while a client
\* executes a statement reaches the caller after one execution of the
\* statement, with no retry sleep taken.
C6_NonRetryableOnce ==
  (call.layer = "client" /\ call.fault \in PermanentFaults /\ invocations >= 1)
  => /\ pc = "done"
     /\ outcome.kind = "raised"
     /\ executed = 1
     /\ slept = <<>>

\* C7: a validation failure of a CRUD operation is final at once: the body has
\* run once, no sleep follows, and the caller receives the validation error.
C7_ValidationFatal ==
  (call.layer = "crud" /\ raised # <<>> /\ raised[1] = "ValueError")
  => /\ pc = "done"
     /\ invocations = 1
     /\ slept = <<>>
     /\ outcome.kind = "raised" /\ outcome.exc = "ValueError"

\* C8: create_ssh_tunnel whose start fails on attempts 1..k (k <= max_retries)
\* and succeeds on attempt k+1 has slept initial_backoff * 2^(i-1) after the
\* i-th failure, in that order, and returns the local port bound by the
\* forwarder started on attempt k+1.
C8_TunnelBackoffThenPort ==
  /\ tun_slept = [i \in 1..Len(tun_slept) |-> initial_backoff * Pow(2, i - 1)]
  /\ (tun_pc = "done" /\ tun_result.kind = "returned") =>
        LET k == attempt - 1 IN
        /\ k <= max_retries
        /\ \A i \in 1..k : bound_port[i] = 0
        /\ Len(tun_slept) = k
        /\ ssh_tunnel.id = k + 1
        /\ ssh_tunnel.started
        /\ tun_result.value = bound_port[k + 1]
        /\ tun_result.value \in LocalPorts

\* C8 witness: three failures then success with initial_backoff = 1
C8_Witness ==
  /\ tun_pc = "done"
  /\ tun_result.kind = "returned"
  /\ initial_backoff = 1
  /\ attempt = 4
  /\ tun_slept = <<1, 2, 4>>

C9_Safety ==
  /\ attempt <= max_retries + 1
  /\ tun_pc = "loop" => Len(tun_slept) = attempt
  /\ (tun_pc = "done" /\ tun_result.kind = "raised") =>
        /\ attempt = max_retries + 1
        /\ \A i \in 1..attempt : bound_port[i] = 0
        /\ Len(tun_slept) = max_retries
        /\ tun_result.error = attempt

\* C9: create_ssh_tunnel always terminates; when every start attempt fails it
\* makes max_retries + 1 attempts, sleeps between attempts only (max_retries
\* sleeps, none after the final failure) and raises the last attempt's error.
C9_TunnelTerminates ==
  /\ []C9_Safety
  /\ (tun_pc = "loop") ~> (tun_pc = "done")

\* C9 witness: every attempt failed with max_retries = 3
C9_Witness ==
  /\ tun_pc = "done"
  /\ tun_result.kind = "raised"
  /\ max_retries = 3
  /\ attempt = 4
  /\ Len(tun_slept) = 3


\* the capacity the client's configuration and code ask the pool for
C10_ConfiguredMax ==
  CASE pool_backend = "postgresql" ->
         IF pool_config.has_max THEN pool_config.max_pool_size ELSE 10
    [] pool_backend \in {"oracle", "mysql"} -> 10
    [] OTHER -> 0

\* C10 (state part): the connections checked out of a pooled client's pool
\* never number more than the pool's configured max.
C10_Bounded == CheckedOut <= C10_ConfiguredMax

\* C10 (step part): while max connections are checked out no caller comes to
\* hold one; a caller that asked is waiting or was refused.
C10_NoGrantAtMax ==
  [][CheckedOut = C10_ConfiguredMax =>
       /\ \A t \in Threads : conn'[t] = "using" => conn[t] \in {"using", "cached"}
       /\ others_out' <= others_out]_vars

C11_NoSlotLeaked == pool_backend # "none" => Servable = pool_max


\* C12: no two concurrent calls of one client use the same physical connection,
\* so a caller's statement is committed or discarded by that caller only.
C12_NoSharedConnection ==
  /\ Cardinality({t \in Threads : sq_pc[t] # "idle"}) <= 1
  /\ \A t \in Threads :
       sq_stmt[t].state \in {"committed", "discarded"} => sq_stmt[t].by = t


\* C13: when execute_query fails while executing a statement, the connection
\* it used is rolled back before the error reaches the caller, for every client.
C13_RollbackBeforeRaise ==
  (co_pc = "done" /\ co_call.op = "execute_query" /\ co_call.fault = "statement_error")
    => /\ co_result.kind = "raised"
       /\ \E i, j \in DOMAIN co_log :
            i < j /\ co_log[i] = "failed" /\ co_log[j] = "rollback"

\* C14: a connection goes back to the pool with no open transaction: every write
\* executed during the checkout was committed or rolled back before the release,
\* on the success path and on every exception path.
C14_NoOpenTransactionAtRelease ==
  co_pc = "done" =>
    \A r \in DOMAIN co_log : co_log[r] = "release" =>
      \A e \in 1..(r - 1) : co_log[e] = "write" =>
        \E j \in (e + 1)..(r - 1) : co_log[j] \in {"commit", "rollback"}

\* C15: a backend error met in connect, execute_query, execute_batch_query or
\* execute_transaction of any client reaches the caller as DatabaseConnectionError.
C15_SingleErrorKind ==
  (co_pc = "done" /\ co_call.fault \in BackendFaults)
    => co_result = [kind |-> "raised", exc |-> "DatabaseConnectionError"]

\* C16: execute_query yields a row set for every read-like statement and an
\* affected-row count, after a commit, for every other statement.
C16_ResultByReadLike ==
  (co_pc = "done" /\ co_call.op = "execute_query" /\ co_call.fault = "none")
    => IF ReadLike(co_call.stmt)
         THEN co_result.kind = "rows"
         ELSE co_result.kind = "count" /\ "commit" \in Range(co_log)


\* C17: no pool survives disconnect(): once disconnect() has returned, a pooled
\* client references no pool, and no later call reaches a pool closed before.
C17_NoPoolSurvivesDisconnect ==
  lc_client \in PooledBackends =>
    /\ (lc_ops # <<>> /\ lc_ops[Len(lc_ops)].op = "disconnect"
          /\ lc_ops[Len(lc_ops)].result = "returned") => lc_handle = 0
    /\ \A i \in DOMAIN lc_trace : lc_trace[i].was # "closed"

\* C18: disconnect() on a client on which connect() was never called is a no-op
\* for every client: no driver or tunnel call, no exception, state unchanged.
C18_FreshDisconnectNoOp ==
  (lc_client # "none" /\ lc_ops # <<>>
     /\ \A i \in DOMAIN lc_ops : lc_ops[i].op = "disconnect")
    => /\ lc_trace = <<>>
       /\ \A i \in DOMAIN lc_ops : lc_ops[i].result = "returned"
       /\ lc_handle = 0
       /\ lc_objects = <<>>
       /\ lc_manager = NoManager
       /\ lc_config \in ConfigsFor(lc_client)

C18_Witness ==
  /\ lc_client = "mongodb"
  /\ lc_config.ssh
  /\ Len(lc_ops) = 2
  /\ \A i \in DOMAIN lc_ops : lc_ops[i].op = "disconnect" /\ lc_ops[i].result = "returned"

BackendConstructors ==
  {"MongoClient", "oracledb.create_pool", "MySQLConnectionPool",
   "ThreadedConnectionPool", "pyodbc.connect", "sqlite3.connect"}

C20_RoundTrip ==
  rt_pc = "read" =>
    /\ rt_created = Return("True")
    /\ rt_read.kind = "returned"
    /\ Range(rt_records) =
         {AsRecord(rt_call.columns, rt_call.values[i]) : i \in DOMAIN rt_call.values}


\* C21: create_table_if_not_exists is idempotent: a call that follows a first
\* call with the same table, columns and sample values never raises, sends no
\* CREATE TABLE and leaves the table's column list as the first call left it,
\* also when the only column is named id.
C21_CreateTableIdempotent ==
  \A i \in 2..Len(ct_results) :
    ct_results[1].outcome.kind = "returned" =>
      /\ ct_results[i].outcome.kind = "returned"
      /\ \A k \in DOMAIN ct_results[i].sent : ct_results[i].sent[k].kind # "create_table"
      /\ ct_results[i].catalog = ct_results[1].catalog


\* C22: a statement of the SQL Server, PostgreSQL or Oracle client whose
\* execution failed, retries exhausted, is not silently discarded: when its
\* error reaches the caller the failed-query log holds an entry with the
\* statement's text and parameters.
C22_FailedWriteLogged ==
  (/\ pc = "done"
   /\ call.layer = "client"
   /\ call.backend \in {"sqlserver", "postgresql", "oracle"}
   /\ call.fault \in StatementFaults
   /\ outcome.kind = "raised")
  => \E i \in DOMAIN failed_query_queue : failed_query_queue[i].query = "statement"

\* C23: the failed-query log is bounded: however many statements fail, with no
\* replay pass run, the in-memory queue never holds more than a fixed number
\* of entries, so it holds fewer entries than the failing statements logged
\* once these exceed the bound (here: MaxFailedStatements of them).
C23_QueueBounded ==
  ~fq_replayed => \A o \in QueueOwners : Len(fq_queue[o]) < MaxFailedStatements

C25_FactoryConstructsOnly ==
  [][gd_call' # gd_call =>
       IF gd_call'.db_type \in {"mysql", "postgresql", "mongodb", "sqlite",
                                "sqlserver", "oracle"}
         THEN /\ gd_call'.result = gd_call'.db_type
              /\ lc_client' = gd_call'.db_type
              /\ lc_handle' = 0
              /\ lc_objects' = <<>>
              /\ lc_manager' = NoManager
              /\ lc_ops' = <<>>
              /\ lc_trace' = <<>>
         ELSE /\ gd_call'.result = "ValueError"
              /\ UNCHANGED lifeVars]_vars

\* the factory was asked for an identifier that differs from a supported one
\* only by case
C25_Witness ==
  /\ gd_call.db_type = "MySQL"
  /\ gd_call.result = "ValueError"
  /\ lc_client = "none"

\* C26: a per-call timeout bounds that one statement only: an execute_query
\* without timeout, by the same thread or by any caller that later gets the
\* same pooled connection, runs under the default timeout.
C26_TimeoutOneCallOnly ==
  tm_last.client # "none" /\ tm_last.timeout = 0 =>
    tm_last.effective =
      IF tm_last.client = "postgresql" THEN PgDefaultStatementTimeout ELSE 0

\* C27: execute_raw_query returns normalised records exactly when the
\* statement's leading keyword is, case-insensitively, SELECT; any other
\* statement is executed for its effect and None is returned, never a row
\* count or a raw result.
C27_RecordsIffReadLike ==
  rq_done =>
    IF rq_call.query.keyword \in {"SELECT", "select", "SeLeCt"}
      THEN /\ rq_result.kind = "records"
           /\ \A i \in DOMAIN rq_result.value : rq_result.value[i] \notin {"date", "datetime"}
      ELSE rq_result.kind = "None"

\* the kind of column type a backend type name stands for
C28_Category(type) ==
  CASE type \in {"INTEGER", "INT", "BIGINT", "SERIAL"} -> "integer"
    [] type \in {"DOUBLE PRECISION", "FLOAT"} -> "float"
    [] type = "DATE" -> "date"
    [] type \in {"TIMESTAMP", "DATETIME2"} -> "timestamp"
    [] type \in {"BOOLEAN", "BIT"} -> "boolean"
    [] type \in {"TEXT", "VARCHAR(MAX)"} -> "text"
    [] OTHER -> "other"

C29_Batches ==
  rt_pc \in {"created", "read"} =>
    LET n == Len(rt_call.values)
        b == rt_call.batch_size
        batches == SelectSeq(rt_sent, LAMBDA st : st.kind = "insert")
    IN
    /\ rt_created = Return("True")
    /\ Len(batches) = (n + b - 1) \div b
    /\ \A k \in DOMAIN batches : Len(batches[k].rows) \in 1..b
    /\ SumSeq([k \in DOMAIN batches |-> Len(batches[k].rows)]) = n
    /\ \A i \in 1..n :
         batches[((i - 1) \div b) + 1].rows[((i - 1) % b) + 1] = rt_call.values[i]
    /\ n = 0 => batches = <<>>

\* three rows went out in a full batch of two and a last batch of one
C29_Witness ==
  /\ rt_pc = "created"
  /\ Len(rt_call.values) = 3 /\ rt_call.batch_size = 2
  /\ rt_call.values[1] # rt_call.values[2]
  /\ Len(SelectSeq(rt_sent, LAMBDA st : st.kind = "insert")) = 2

\* create was called without rows and returned True
C29_WitnessNoRows ==
  /\ rt_pc = "created"
  /\ rt_call.values = <<>>
  /\ rt_created = Return("True")

\* C30: with nothing else putting to or getting from the queue,
\* process_failed_queries terminates for every queue content and every pattern
\* of failures: each entry is executed again at most MAX_RETRIES times in
\* total, and the queue is empty when the call returns.
C30_Safety == \A q \in DOMAIN fq_runs : fq_runs[q] <= MAX_RETRIES

C30_ReplayTerminates ==
  /\ []C30_Safety
  /\ (fq_pc = "replaying") ~> (fq_pc = "idle" /\ fq_queue["sqlserver"] = <<>>)

\* a pass has returned after executing some entry MAX_RETRIES times
C30_Witness ==
  /\ fq_pc = "idle" /\ fq_replayed
  /\ fq_queue["sqlserver"] = <<>>
  /\ \E q \in DOMAIN fq_runs : fq_runs[q] = MAX_RETRIES


\* C31: when the statement run by execute_query_with_savepoint fails, only the
\* work done after the savepoint is undone: work done earlier in the same
\* transaction is still pending and the connection is not released.
C31_EarlierWorkPending ==
  [][\A t \in Threads :
       (/\ tl_last'.thread = t
        /\ tl_last'.op = "execute_query_with_savepoint"
        /\ tl_last'.result \notin {"returned", "PoolError", "AttributeError"}
        /\ t \notin tl_stale
        /\ tl_local[t] \in tl_pending)
       => /\ tl_local[t] \in tl_pending'
          /\ tl_local'[t] = tl_local[t]]_vars

\* C33: PostgreSQLClient keeps a connection checked out per thread: the number
\* of connections checked out of the pool equals the number of threads that
\* have run an operation since their last error, and once max_pool_size
\* threads hold one, an operation of a further thread obtains none.
C33_Count == tl_open => Cardinality(tl_used) = Cardinality(tl_ran)

C33_PerThreadCheckout ==
  /\ []C33_Count
  /\ [][\A t \in Threads :
          (/\ tl_open /\ tl_last'.thread = t
           /\ tl_last'.op = "execute_query"
           /\ tl_local[t] = 0
           /\ Cardinality({u \in Threads : tl_local[u] # 0 /\ u \notin tl_stale}) = tl_max)
          => tl_last'.result = "PoolError"]_vars

\* C34: after disconnect() no thread's cached handle refers to a connection of
\* the disposed pool: an operation of any thread after a later connect() uses
\* a connection checked out from the new pool, never a handle left over.
C34_NoStaleHandle == tl_stale = {} /\ ~tl_last.stale

\* C35: if an operation inside get_connection raises, the thread's connection
\* is rolled back and returned to the pool and the thread-local handle is
\* cleared before the exception propagates.
C35_ReturnedOnError ==
  [][\A t \in Threads :
       (/\ tl_last'.thread = t
        /\ tl_last'.op \in {"execute_query", "execute_query_with_savepoint"}
        /\ tl_last'.result \notin {"returned", "PoolError", "AttributeError"}
        /\ ~tl_last'.stale)
       => /\ tl_last'.connection \notin tl_used'
          /\ tl_local'[t] = 0]_vars

\* C32: OracleGenericCRUD.update with n update columns builds a SET clause whose
\* k-th column, in the order of the updates mapping, is bound to placeholder :k,
\* and binds the n update values in that order followed by the where parameters.
C32_SetClausePlaceholders ==
  up_last.result # "none" =>
    LET n == Len(up_last.updates) IN
    /\ Len(up_last.set_clause) = n
    /\ \A k \in 1..n : /\ up_last.set_clause[k].col = up_last.updates[k][1]
                       /\ up_last.set_clause[k].placeholder = k
    /\ up_last.values = [k \in 1..n |-> up_last.updates[k][2]] \o up_last.params

\* the INSERT statements among the statements of the running call, in order
C36_Inserts == SelectSeq(sent, LAMBDA st : st.kind = "insert")

\* batch k of the call's values: rows (k-1)*batch_size + 1 .. min(k*batch_size, n)
C36_Batch(k) ==
  LET n == Len(call.values)
      hi == IF k * call.batch_size < n THEN k * call.batch_size ELSE n
  IN SubSeq(call.values, (k - 1) * call.batch_size + 1, hi)

\* a finished PostgresqlGenericCRUD.create in which a batch failed: the last
\* statement handed to the client is an INSERT and create did not return True
C36_BatchFailed ==
  /\ pc = "done"
  /\ call.layer = "crud" /\ call.backend = "postgresql" /\ call.op = "create"
  /\ sent # <<>>
  /\ sent[Len(sent)].kind = "insert"
  /\ ~(outcome.kind = "returned" /\ outcome.value = "True")

\* C36: PostgresqlGenericCRUD.create is not atomic across batches: when batch k
\* fails, the rows of batches 1..k-1 remain committed, no batch after k is
\* attempted, create returns False instead of raising, and the retry wrapper
\* does not run the inserts again, so no row is inserted twice.
C36_PartialCreate ==
  C36_BatchFailed =>
    LET k == Len(C36_Inserts) IN
    /\ outcome.kind = "returned" /\ outcome.value = "False"
    /\ raised = <<>> => invocations = 1
    /\ outcome.attempt = invocations
    /\ \A j \in 1..k : C36_Inserts[j].rows = C36_Batch(j) /\ C36_Batch(j) # <<>>
    /\ Stored(SubSeq(C36_Inserts, 1, k - 1))
         = Stored(<<[kind |-> "insert", columns |-> C36_Inserts[k].columns,
                     rows |-> SubSeq(call.values, 1, (k - 1) * call.batch_size)]>>)

\* the second of two batches failed: the first batch stays committed
C36_Witness ==
  /\ C36_BatchFailed
  /\ Len(C36_Inserts) = 2
  /\ Len(call.values) = 2
  /\ outcome.value = "False"

\* C37: the failed-query log holds at most one entry per logical statement: one
\* execute_query call that fails on several attempts of its retry wrapper leaves
\* exactly one entry on the queue.
C37_OneEntryPerStatement ==
  (call.layer = "client" /\ call.op = "execute_query") =>
    /\ Len(failed_query_queue) <= 1
    /\ (pc = "done" /\ outcome.kind = "raised"
          /\ IsInstance(outcome.exc, ClientError(call.backend))
          /\ call.backend \in {"sqlserver", "postgresql"})
         => Len(failed_query_queue) = 1

\* no entry is in two callers' hands, or in a caller's hands and on the queue
C38_OneHandler ==
  /\ \A t, u \in Threads :
       (t # u /\ dq_pc[t] = "handle" /\ dq_pc[u] = "handle")
         => dq_entry[t].query # dq_entry[u].query
  /\ \A t \in Threads : dq_pc[t] = "handle" =>
       \A i \in DOMAIN dq_queue : dq_queue[i].query # dq_entry[t].query

\* C38: process_failed_queries terminates when two threads run it concurrently:
\* no caller blocks forever on the queue after the other caller took the last
\* entry between its emptiness check and its dequeue, and every entry is
\* handled by exactly one caller.
C38_ConcurrentDrainReturns ==
  /\ []C38_OneHandler
  /\ \A t \in Threads : (dq_pc[t] = "check") ~> (dq_pc[t] = "idle")

\* C39: create_table_if_not_exists is safe under concurrent callers: when two
\* callers race on a table that does not exist, at most one CREATE TABLE is
\* issued for it and neither call fails.
C39_ConcurrentCreateTable ==
  /\ \A t \in Threads : cr_pc[t] # "raised"
  /\ \A t, u \in Threads :
       (t # u /\ cr_call[t] = cr_call[u] /\ cr_call[t] # NoRaceCall)
         => ~(cr_issued[t] /\ cr_issued[u])

\* C40: once toggle_job has disabled a job or remove_job has removed it, a
\* running scheduler never starts that job again; and a job added or re-enabled
\* while the scheduler is running is run at its next due time without
\* restarting the scheduler, that is, it is among the jobs the loop runs.
C40_SchedulerFollowsConfig ==
  /\ sc_started.job # "none" => (sc_started.present /\ sc_started.enabled)
  /\ sc_is_running => ScheduleJobs \subseteq sc_jobs
=============================================================================
